---- MODULE Spec2Model ----
(***************************************************************************)
(* A model of parsium: the parser contract and the composite combinators   *)
(* (object, array, alternatives, optional, file), the File storage         *)
(* variants with the spooling policy, and the multipart ingestion          *)
(* pipeline (boundary sniffing, field/file accumulation, finalization).    *)
(*                                                                         *)
(* The synchronous value transforms are pure functions and are written as  *)
(* operators; the streaming paths are state machines with one action per   *)
(* event handler.                                                          *)
(***************************************************************************)
EXTENDS Integers, Sequences, FiniteSets, TLC

VARIABLES
    pc,        \* position of the synchronous caller: "ready" or "done"
    call,      \* the synchronous call being made (combinator and arguments)
    ret,       \* what the call returned or threw
    session,   \* the stream-parser call: parser, options, shape, path, body
    cursor,    \* index of the next chunk the source stream delivers
    source,    \* the source stream: "open", "ended" or "errored"
    sniffer,   \* closure state of the boundary sniffer
    decoder,   \* the multipart decoder: state, closing delimiter seen
    fileParts, \* per file sub-stream: field name, File accumulator, bytes delivered
    queue,     \* sub-stream events emitted and not yet delivered
    fieldMap,  \* the Field Map (own entries, in insertion order)
    arrivals,  \* every [name, value] installed in the Field Map, in order
    subErrors, \* errors collected from file sub-streams
    inner,     \* the promise of parseFormDataStream
    outer,     \* the promise the stream parser returned
    rest,      \* the fallback reader: state and bytes buffered
    fsDisk,    \* the file system: path -> chunks written
    uncaught,  \* exceptions that escaped an event handler
    ioFailed   \* a disk operation has failed

syncVars == <<pc, call, ret>>
streamVars == <<session, cursor, source, sniffer, decoder, fileParts, queue, fieldMap,
                arrivals, subErrors, inner, outer, rest, fsDisk, uncaught, ioFailed>>
vars == <<syncVars, streamVars>>

----------------------------------------------------------------------------
(* Bounds of the model.                                                    *)

\* Entries of an input mapping.
MaxEntries == 2
\* Elements of an input sequence.
MaxElems == 3
\* Call-stack frames available to a top-level call (the engine's limit).
StackFrames == 16
\* Largest integer that occurs as a number or in a decimal text.
MaxNum == 30

----------------------------------------------------------------------------
(* JavaScript values.  Every value is a record of the same four fields so  *)
(* that any two values can be compared: t is the kind, n a number or a     *)
(* size, s a text, e the elements (of an Array) or the own enumerable      *)
(* entries [k, v] in insertion order (of an Object).                       *)

Val(t, n, s, e) == [t |-> t, n |-> n, s |-> s, e |-> e]
Undefined == Val("undefined", 0, "", <<>>)
Null      == Val("null", 0, "", <<>>)
Num(n)    == Val("number", n, "", <<>>)
NaN       == Val("number", 0, "NaN", <<>>)
Str(s)    == Val("string", 0, s, <<>>)
Buf(s)    == Val("Buffer", 0, s, <<>>)
Arr(e)    == Val("Array", 0, "", e)
Obj(e)    == Val("Object", 0, "", e)
Entry(k, v) == [k |-> k, v |-> v]

\* A RAMFile holds its bytes in memory (e: the chunks appended, in order);
\* a TempFile holds a path (s) to its backing file.  n is the size field.
RAMFileV(size, data)  == Val("RAMFile", size, "", data)
TempFileV(size, path) == Val("TempFile", size, path, <<>>)
IsFile(v) == v.t \in {"RAMFile", "TempFile"}

\* Names every plain object inherits from Object.prototype (a representative
\* subset): the `in` operator finds them in any object.
ObjectPrototypeNames == {"toString", "valueOf", "hasOwnProperty"}

\* Number.prototype.toString / template-literal rendering of an index.
NumText(v) == IF v.s = "NaN" THEN "NaN" ELSE ToString(v.n)

\* parseInt on a decimal text of the model's number range; any other text of
\* the model has no leading digits and gives NaN.
parseInt(s) ==
    IF \E n \in 0..MaxNum : ToString(n) = s
    THEN Num(CHOOSE n \in 0..MaxNum : ToString(n) = s)
    ELSE NaN

\* Buffer.from(<array of bytes>).toString(): one character per byte; the
\* bytes of the model are control characters, written #<code>.
RECURSIVE BytesText(_)
BytesText(e) ==
    IF e = <<>> THEN "" ELSE ("#" \o ToString(Head(e).n)) \o BytesText(Tail(e))

IsByte(v) == v.t = "number" /\ v.s = "" /\ v.n >= 0 /\ v.n <= 255

OwnKeys(v) == {v.e[i].k : i \in DOMAIN v.e}
Lookup(v, k) == IF k \in OwnKeys(v)
                THEN (v.e[CHOOSE i \in DOMAIN v.e : v.e[i].k = k]).v
                ELSE Undefined

\* Object.entries(value): the own enumerable string-keyed properties.
ObjectEntries(v) ==
    CASE v.t = "Object" -> v.e
      [] v.t = "Array"  -> [i \in DOMAIN v.e |-> Entry(ToString(i - 1), v.e[i])]
      [] v.t = "RAMFile" -> <<Entry("filename", Undefined), Entry("encoding", Undefined),
                             Entry("mimeType", Undefined), Entry("size", Num(v.n)),
                             Entry("data", Buf(""))>>
      [] v.t = "TempFile" -> <<Entry("filename", Undefined), Entry("encoding", Undefined),
                              Entry("mimeType", Undefined), Entry("path", Str(v.s)),
                              Entry("size", Num(v.n))>>
      [] OTHER -> <<>>

\* key in value: own properties and everything on the prototype chain.
HasProperty(v, k) ==
    \/ k \in {ObjectEntries(v)[i].k : i \in DOMAIN ObjectEntries(v)}
    \/ k \in ObjectPrototypeNames
    \/ v.t = "Array" /\ k = "length"

\* JSON.stringify on the values that have a JSON text.
RECURSIVE JSONStringify(_)
RECURSIVE JSONList(_, _)
JSONList(e, isObj) ==
    IF e = <<>> THEN ""
    ELSE (IF isObj THEN ("\"" \o Head(e).k \o "\":" \o JSONStringify(Head(e).v))
          ELSE JSONStringify(Head(e)))
         \o (IF Tail(e) = <<>> THEN "" ELSE "," \o JSONList(Tail(e), isObj))
JSONStringify(v) ==
    CASE v.t = "number" -> NumText(v)
      [] v.t = "string" -> "\"" \o v.s \o "\""
      [] v.t = "null"   -> "null"
      [] v.t = "Array"  -> "[" \o JSONList(v.e, FALSE) \o "]"
      [] v.t = "Object" -> "{" \o JSONList(v.e, TRUE) \o "}"
      [] OTHER -> "undefined"

\* The JSON documents of the model: JSON.parse inverts JSON.stringify on
\* them and throws a SyntaxError on every other text.
JSONDocs ==
    {Num(5), Str("abc"), Null, Arr(<<Num(1)>>),
     Obj(<<Entry("a", Str("5")), Entry("b", Str("hi"))>>),
     Obj(<<Entry("a", Str("abc")), Entry("b", Obj(<<>>))>>),
     Obj(<<Entry("test", Str("test"))>>)}
IsJSON(s) == \E d \in JSONDocs : JSONStringify(d) = s
JSONparse(s) == CHOOSE d \in JSONDocs : JSONStringify(d) = s

----------------------------------------------------------------------------
(* Paths and messages.  A path is the sequence of its accessors            *)
(* (root.a[0] is <<"root", "a", "[0]">>); an error message is the sequence *)
(* of its lines, each a tag (the path it prints between brackets) and a    *)
(* text; join('\n') is concatenation.                                      *)

NoPath == <<"?">>                 \* the path argument left out (undefined)
PathOr(path)  == IF path = NoPath THEN <<>> ELSE path              \* ${path ?? ""}
PathRaw(path) == IF path = NoPath THEN <<"undefined">> ELSE path   \* ${path}
Line(tag, text) == [tag |-> tag, text |-> text]
IsPrefix(p, q) == Len(p) <= Len(q) /\ SubSeq(q, 1, Len(p)) = p

\* The outcome of a call: st is "ok" or the name of what was thrown; log is
\* the sequence of parser invocations made, in order, each with the parser,
\* the path it was given and the frames left when it was invoked.
Ok(v, log)      == [st |-> "ok", v |-> v, msg |-> <<>>, log |-> log]
Thrown(st, msg, log) == [st |-> st, v |-> Undefined, msg |-> msg, log |-> log]
ParsingError(msg, log) == Thrown("ParsingError", msg, log)
Invoked(p, path, b) == [p |-> p, at |-> path, b |-> b]

RECURSIVE Flatten(_)
Flatten(ss) == IF ss = <<>> THEN <<>> ELSE Head(ss) \o Flatten(Tail(ss))

----------------------------------------------------------------------------
(* Options.                                                                *)

\* min/max options of string, int and array; max of file.
NoOpts == [hasMin |-> FALSE, min |-> 0, hasMax |-> FALSE, max |-> 0]
MinOpt(n) == [NoOpts EXCEPT !.hasMin = TRUE, !.min = n]
MaxOpt(n) == [NoOpts EXCEPT !.hasMax = TRUE, !.max = n]

\* The options argument of object(): given is FALSE when the argument is
\* left out; ignoreUnknown is "unset", "true" or "false".
ObjOpts(given, ignoreUnknown, hasMaxFileMemory, maxFileMemory, hasMaxForRAM, maxForRAM, hasTempDir) ==
    [given |-> given, ignoreUnknown |-> ignoreUnknown,
     hasMaxFileMemory |-> hasMaxFileMemory, maxFileMemory |-> maxFileMemory,
     hasMaxForRAM |-> hasMaxForRAM, maxForRAM |-> maxForRAM,
     hasTempDir |-> hasTempDir]
OptionsOmitted == ObjOpts(FALSE, "unset", FALSE, 0, FALSE, 0, FALSE)

\* The default value of the options parameter: = { ignoreUnknown: true }.
DefaultObjectOptions == ObjOpts(TRUE, "true", FALSE, 0, FALSE, 0, FALSE)

\* A default parameter value replaces the argument only when it is left out.
ObjectOptions(arg) == IF arg.given THEN arg ELSE DefaultObjectOptions

\* The test of the unknown-key branch: !options.ignoreUnknown is false.
IgnoreUnknown(opts) == opts.ignoreUnknown = "true"

----------------------------------------------------------------------------
(* The parsers.  A parser is named by an identifier; Parse invokes it.     *)
(* Every invocation takes two stack frames (the wrapper createParser       *)
(* returns, and the raw parser); b is the number of frames left.  With     *)
(* none left the call throws a RangeError instead of running.              *)

RECURSIVE Parse(_, _, _, _)
RECURSIVE array(_, _, _, _, _)
RECURSIVE object(_, _, _, _, _)
RECURSIVE objectEntries(_, _, _, _, _, _)
RECURSIVE objectMissing(_, _, _, _, _, _)
RECURSIVE alternativesFrom(_, _, _, _, _, _, _)

StackOverflow == Thrown("RangeError", <<>>, <<>>)

\* createParser: parserFn = (value, path) => parser(value, path).
createParser(name, r, path, b) == [r EXCEPT !.log = <<Invoked(name, path, b)>> \o @]

buffer(v, path, b) ==
    CASE v.t = "Buffer" -> Ok(v, <<>>)
      [] v.t = "string" -> Ok(Buf(v.s), <<>>)
      [] v.t = "Array" /\ (\A i \in DOMAIN v.e : IsByte(v.e[i])) ->
             Ok(Buf(BytesText(v.e)), <<>>)
      [] v.t = "Object" /\ Lookup(v, "type") = Str("Buffer")
                        /\ Lookup(v, "data").t = "Array" ->
             Ok(Buf(BytesText(Lookup(v, "data").e)), <<>>)
      [] OTHER -> ParsingError(<<Line(PathOr(path), "cannot be converted to a Buffer")>>, <<>>)

string(opts, v, path, b) ==
    LET conv == CASE v.t = "string" -> Ok(v, <<>>)
                  [] v.t = "number" -> Ok(Str(NumText(v)), <<>>)
                  [] OTHER ->
                       LET r == Parse("buffer", v, path, b)
                       IN  IF r.st = "ok" THEN Ok(Str(r.v.s), r.log)
                           ELSE ParsingError(<<Line(PathOr(path), "cannot be converted to a string")>>, r.log)
    IN  IF conv.st # "ok" THEN conv
        ELSE IF opts.hasMin /\ Len(conv.v.s) < opts.min
        THEN ParsingError(<<Line(PathOr(path), "length is less than the allowed minimum")>>, conv.log)
        ELSE IF opts.hasMax /\ Len(conv.v.s) > opts.max
        THEN ParsingError(<<Line(PathOr(path), "length is larger than the allowed maximum")>>, conv.log)
        ELSE conv

int(opts, v, path, b) ==
    LET conv == IF v.t = "number" THEN Ok(v, <<>>)
                ELSE LET r == Parse("string", v, path, b)
                     IN  IF r.st = "ok" THEN Ok(parseInt(r.v.s), r.log)
                         ELSE ParsingError(<<Line(PathOr(path), "cannot be parsed as integer")>>, r.log)
    IN  IF conv.st # "ok" THEN conv
        ELSE IF conv.v.s = "NaN"
        THEN ParsingError(<<Line(PathOr(path), "should be an integer")>>, conv.log)
        ELSE IF opts.hasMin /\ conv.v.n < opts.min
        THEN ParsingError(<<Line(PathOr(path), "is less than the allowed minimum")>>, conv.log)
        ELSE IF opts.hasMax /\ conv.v.n > opts.max
        THEN ParsingError(<<Line(PathOr(path), "is larger than the allowed maximum")>>, conv.log)
        ELSE conv

\* The value transform of file(options); options.max counts when truthy.
file(opts, v, path, b) ==
    LET tooLarge == ParsingError(<<Line(PathOr(path), "is too large.")>>, <<>>)
        limited  == opts.hasMax /\ opts.max # 0
    IN  IF IsFile(v)
        THEN IF limited /\ v.n > opts.max THEN tooLarge ELSE Ok(v, <<>>)
        ELSE LET buf == Parse("buffer", v, path, b)
             IN  IF buf.st # "ok" THEN buf
                 ELSE IF limited /\ Len(buf.v.s) > opts.max
                 THEN [tooLarge EXCEPT !.log = buf.log]
                 ELSE Ok(RAMFileV(Len(buf.v.s), <<Entry("bytes", buf.v)>>), buf.log \o buf.log)

any(v) == Ok(v, <<>>)

\* A variant of optional that hands null to the parser.
optionalOfUndefinedOnly(sub, v, path, b) ==
    IF v.t = "undefined" THEN Ok(Undefined, <<>>)
    ELSE Parse(sub, v, path, b)

\* optional(parser)
optional(sub, v, path, b) ==
    IF v.t = "undefined" THEN Ok(Undefined, <<>>)
    ELSE IF v.t = "null" THEN Ok(Null, <<>>)
    ELSE Parse(sub, v, path, b)

\* transform(parser, transformer) with a transformer that throws an Error.
transformThrowing(sub, v, path, b) ==
    LET parsed == Parse(sub, v, path, b)
    IN  IF parsed.st = "ok" THEN Thrown("Error", <<>>, parsed.log) ELSE parsed

\* transform(parser, transformer) with the transformer n => n + 1.
transformIncrement(sub, v, path, b) ==
    LET parsed == Parse(sub, v, path, b)
    IN  IF parsed.st = "ok" THEN Ok(Num(parsed.v.n + 1), parsed.log) ELSE parsed

\* A variant that folds every failure into the aggregate error.
alternativesFolding(ps, i, v, path, b, errors, log) ==
    IF i > Len(ps)
    THEN ParsingError(<<Line(PathRaw(path), "doesn't match any of allowed alternatives:")>>
                      \o Flatten(errors), log)
    ELSE LET r == Parse(ps[i], v, path, b)
         IN  IF r.st = "ok" THEN Ok(r.v, log \o r.log)
             ELSE alternativesFrom(ps, i + 1, v, path, b, Append(errors, r.msg), log \o r.log)
\* The loop of alternatives from parser i on; errors are the ParsingErrors
\* caught so far.
alternativesFrom(ps, i, v, path, b, errors, log) ==
    IF i > Len(ps)
    THEN ParsingError(<<Line(PathRaw(path), "doesn't match any of allowed alternatives:")>>
                      \o Flatten(errors), log)
    ELSE LET r == Parse(ps[i], v, path, b)
         IN  IF r.st = "ok" THEN Ok(r.v, log \o r.log)
             ELSE IF r.st = "ParsingError"
             THEN alternativesFrom(ps, i + 1, v, path, b, Append(errors, r.msg), log \o r.log)
             ELSE Thrown(r.st, r.msg, log \o r.log)

\* A variant that leaves the first parser out.
alternativesSkipFirst(ps, v, path, b) == alternativesFrom(ps, 2, v, path, b, <<>>, <<>>)

alternatives(ps, v, path, b) == alternativesFrom(ps, 1, v, path, b, <<>>, <<>>)

\* The frames an invocation takes: the wrapper and the raw parser.  Frames
\* differ in size with the engine; the raw parser of array, with its locals
\* and closures, counts for three.
Frames(kind) == IF kind = "array" THEN 4 ELSE 2

\* A variant that retries with the value itself.
NotWrapped(v) == v

\* [value]
Wrapped(v) == Arr(<<v>>)

\* The value transform of array(parser, options).  The element loop is a
\* forEach with a callback: two more frames, outside any try block.
array(sub, opts, v, path, b) ==
    LET retry == IF b < Frames("array") THEN StackOverflow
                 ELSE createParser("array",
                         array(sub, opts, Wrapped(v), path, b - Frames("array")), path, b)
    IN  IF v.t # "Array"
        THEN IF retry.st = "ok" THEN retry
             ELSE ParsingError(<<Line(PathOr(path), "should be an array}")>>, retry.log)
        ELSE IF opts.hasMin /\ Len(v.e) < opts.min
        THEN ParsingError(<<Line(PathOr(path), "length is less than the allowed minimum")>>, <<>>)
        ELSE IF opts.hasMax /\ Len(v.e) > opts.max
        THEN ParsingError(<<Line(PathOr(path), "length is larger than the allowed maximum")>>, <<>>)
        ELSE IF b < 2 THEN StackOverflow
        ELSE LET rs == [i \in DOMAIN v.e |->
                          Parse(sub, v.e[i], Append(PathRaw(path), "[" \o ToString(i - 1) \o "]"), b - 2)]
                 oks == SelectSeq(rs, LAMBDA r : r.st = "ok")
                 errors == SelectSeq(rs, LAMBDA r : r.st = "ParsingError")
                 log == Flatten([i \in DOMAIN rs |-> rs[i].log])
             IN  IF errors # <<>>
                 THEN IF retry.st = "ok" THEN [retry EXCEPT !.log = log \o @]
                      ELSE ParsingError(Flatten([i \in DOMAIN errors |-> errors[i].msg]),
                                        log \o retry.log)
                 ELSE Ok(Arr([i \in DOMAIN oks |-> oks[i].v]), log)

\* shape: the sequence of [k, p] of the declared keys, in declaration order.
ShapeKeys(shape) == {shape[i].k : i \in DOMAIN shape}
ShapeParser(shape, k) == (shape[CHOOSE i \in DOMAIN shape : shape[i].k = k]).p

\* A variant that installs [v].
SetKeyWrapped(e, k, v) ==
    IF \E i \in DOMAIN e : e[i].k = k
    THEN [i \in DOMAIN e |-> IF e[i].k = k THEN Entry(k, Arr(<<v>>)) ELSE e[i]]
    ELSE Append(e, Entry(k, Arr(<<v>>)))

\* result[key] = v
SetKey(e, k, v) ==
    IF \E i \in DOMAIN e : e[i].k = k
    THEN [i \in DOMAIN e |-> IF e[i].k = k THEN Entry(k, v) ELSE e[i]]
    ELSE Append(e, Entry(k, v))

\* shape[key](val, path) for a key that shape only inherits: a method of
\* Object.prototype called without a receiver.
PrototypeCall(k) ==
    IF k = "toString" THEN Ok(Str("[object Undefined]"), <<>>)
    ELSE Thrown("TypeError", <<>>, <<>>)

\* A variant of the loop that throws the first ParsingError of a key.
objectEntriesFailFast(shape, opts, path, b, entries, acc) ==
    IF entries = <<>> \/ acc.thrown # <<>> THEN acc
    ELSE LET key == Head(entries).k
             kpath == Append(PathOr(path), key)
             r == IF key \in ShapeKeys(shape)
                  THEN Parse(ShapeParser(shape, key), Head(entries).v, kpath, b)
                  ELSE Ok(Undefined, <<>>)
         IN  IF r.st = "ParsingError"
             THEN [acc EXCEPT !.thrown = r.msg, !.log = @ \o r.log]
             ELSE objectEntries(shape, opts, path, b, Tail(entries),
                     [acc EXCEPT !.result = IF key \in ShapeKeys(shape) THEN SetKey(@, key, r.v) ELSE @,
                                 !.log = @ \o r.log])

\* The loop over Object.entries(value).  acc holds result, errors, the log,
\* and thrown: the ParsingError thrown out of the loop, if any.
objectEntries(shape, opts, path, b, entries, acc) ==
    IF entries = <<>> \/ acc.thrown # <<>> THEN acc
    ELSE LET key == Head(entries).k
             val == Head(entries).v
             kpath == Append(PathOr(path), key)
         IN  IF key \in ShapeKeys(shape) \cup ObjectPrototypeNames
             THEN LET r == IF key \in ShapeKeys(shape)
                           THEN Parse(ShapeParser(shape, key), val, kpath, b)
                           ELSE PrototypeCall(key)
                  IN  objectEntries(shape, opts, path, b, Tail(entries),
                         [acc EXCEPT !.result = IF r.st = "ok" THEN SetKey(@, key, r.v) ELSE @,
                                     !.errors = IF r.st = "ParsingError" THEN Append(@, r.msg) ELSE @,
                                     !.log = @ \o r.log])
             ELSE IF ~IgnoreUnknown(opts)
             THEN [acc EXCEPT !.thrown = <<Line(kpath, "is not allowed")>>]
             ELSE objectEntries(shape, opts, path, b, Tail(entries), acc)

\* The loop over the declared keys that are not in value.
objectMissing(shape, i, v, path, b, acc) ==
    IF i > Len(shape) THEN acc
    ELSE LET key == shape[i].k
             kpath == Append(PathOr(path), key)
             r == Parse(shape[i].p, Undefined, kpath, b)
         IN  IF HasProperty(v, key) THEN objectMissing(shape, i + 1, v, path, b, acc)
             ELSE objectMissing(shape, i + 1, v, path, b,
                     [acc EXCEPT !.result = IF r.st = "ok" THEN SetKey(@, key, r.v) ELSE @,
                                 !.errors = IF r.st # "ok"
                                            THEN Append(@, <<Line(kpath, "is required")>>) ELSE @,
                                 !.log = @ \o r.log])

IsMapping(v) == v.t \in {"Object", "Array", "RAMFile", "TempFile"}

\* The value transform of object(shape, options); opts is the options
\* parameter after defaulting.
object(shape, opts, v, path, b) ==
    IF IsMapping(v)
    THEN LET first == objectEntries(shape, opts, path, b, ObjectEntries(v),
                         [result |-> <<>>, errors |-> <<>>, log |-> <<>>, thrown |-> <<>>])
             acc == objectMissing(shape, 1, v, path, b, first)
         IN  IF first.thrown # <<>> THEN ParsingError(first.thrown, first.log)
             ELSE IF acc.errors # <<>> THEN ParsingError(Flatten(acc.errors), acc.log)
             ELSE Ok(Obj(acc.result), acc.log)
    ELSE LET text == Parse("string", v, path, b)
             decoded == JSONparse(text.v.s)
             again == IF b < Frames("object") THEN StackOverflow
                      ELSE createParser("object",
                              object(shape, opts, decoded, path, b - Frames("object")), path, b)
             failed == Line(PathRaw(path), "cannot be converted to an object")
         IN  IF text.st # "ok" THEN ParsingError(<<failed>>, text.log)
             ELSE IF ~IsJSON(text.v.s) THEN ParsingError(<<failed>>, text.log)
             ELSE IF again.st = "ok" THEN [again EXCEPT !.log = text.log \o @]
             ELSE ParsingError(<<failed>>, text.log \o again.log)

\* The parsers of the model, by name.
ParserNames == {"buffer", "string", "int", "file", "any", "optString", "throwing", "incr",
                "arrInt", "arrFile", "altIntString"}

ParserKind(p) == IF p \in {"arrInt", "arrFile"} THEN "array" ELSE p

Parse(p, v, path, b) ==
    IF b < Frames(ParserKind(p)) THEN StackOverflow
    ELSE LET left == b - Frames(ParserKind(p))
         IN  createParser(p,
               CASE p = "buffer" -> buffer(v, path, left)
                 [] p = "string" -> string(NoOpts, v, path, left)
                 [] p = "int"    -> int(NoOpts, v, path, left)
                 [] p = "file"   -> file(NoOpts, v, path, left)
                 [] p = "any"    -> any(v)
                 [] p = "optString" -> optional("string", v, path, left)
                 [] p = "throwing"  -> transformThrowing("any", v, path, left)
                 [] p = "incr"      -> transformIncrement("int", v, path, left)
                 [] p = "arrInt"    -> array("int", NoOpts, v, path, left)
                 [] p = "arrFile"   -> array("file", NoOpts, v, path, left)
                 [] p = "altIntString" -> alternatives(<<"int", "string">>, v, path, left),
               path, b)

----------------------------------------------------------------------------
(* The state of the stream parsers before any stream-parser call.          *)

\* The options argument of file(): given is FALSE when it is left out.
FileOpts(given, hasMax, max, hasMaxForRAM, maxForRAM, hasTempDir) ==
    [given |-> given, hasMax |-> hasMax, max |-> max,
     hasMaxForRAM |-> hasMaxForRAM, maxForRAM |-> maxForRAM, hasTempDir |-> hasTempDir]
NoFileOpts == FileOpts(FALSE, FALSE, 0, FALSE, 0, FALSE)

\* A content-type value: given when the string is there and not empty,
\* boundary what the pattern boundary=... matches in it (<<>> if nothing).
ContentType(given, boundary) == [given |-> given, boundary |-> boundary]
NoContentType == ContentType(FALSE, <<>>)
\* The options of parseFormData: boundary, contentType, and the entries
\* 'content-type' (lower) and 'Content-Type' (upper) of headers.
FormDataParseOptions(boundary, contentType, lower, upper) ==
    [boundary |-> boundary, contentType |-> contentType, lower |-> lower, upper |-> upper]
NoFormDataParseOptions == FormDataParseOptions(<<>>, NoContentType, NoContentType, NoContentType)

\* The arguments of a stream-parser call.  headers is the boundary in the
\* content-type entry of the headers property the stream carries, known the
\* options parseFormData is given.
NoSession == [mode |-> "none", fopts |-> NoFileOpts, oopts |-> OptionsOmitted,
              shape |-> <<>>, path |-> NoPath, body |-> <<>>, b |-> 0,
              headers |-> <<>>, known |-> NoFormDataParseOptions, sub |-> ""]
\* A promise: st is "pending", "resolved" or "rejected"; kind names what it
\* was rejected with.
Promise(st, v, kind, msg) == [st |-> st, v |-> v, kind |-> kind, msg |-> msg]
Pending == Promise("pending", Undefined, "", <<>>)
Resolved(v) == Promise("resolved", v, "", <<>>)
Rejected(kind, msg) == Promise("rejected", Undefined, kind, msg)
EmptyDisk == [p \in {} |-> <<>>]

\* The sniffer of parseFormData before any read: buffers, totalLength and
\* flag are its closure variables, boundary what it extracted, err the
\* message of the Error it rejected with.
IdleSniffer == [st |-> "idle", buffers |-> <<>>, totalLength |-> 0, flag |-> FALSE,
                boundary |-> <<>>, err |-> ""]
\* The decoder before createBusBoy: boundary is the one it is configured
\* with, scratch the searchBuffer start() will write, fed all that was
\* written to it, listeners the events of it that have a listener, unheard
\* whether it has emitted an event that had none.
IdleDecoder == [st |-> "idle", closed |-> FALSE, boundary |-> <<>>, scratch |-> <<>>,
                fed |-> <<>>, listeners |-> {}, unheard |-> FALSE]

StreamIdle ==
    /\ session = NoSession /\ cursor = 1 /\ source = "open"
    /\ sniffer = IdleSniffer
    /\ decoder = IdleDecoder
    /\ fileParts = <<>> /\ queue = <<>> /\ fieldMap = <<>> /\ arrivals = <<>>
    /\ subErrors = <<>> /\ inner = Pending /\ outer = Pending
    /\ rest = [st |-> "idle", data |-> <<>>]
    /\ fsDisk = EmptyDisk /\ uncaught = 0 /\ ioFailed = FALSE

----------------------------------------------------------------------------
(* The synchronous calls.  A state of SpecSync is one top-level call of a  *)
(* combinator on an already-materialized value: Init draws the arguments,  *)
(* the Call actions apply the value transform.                             *)

Key(k, p) == [k |-> k, p |-> p]
ShapeAB     == <<Key("a", "int"), Key("b", "string")>>
ShapeReadme == <<Key("a", "int"), Key("b", "optString"), Key("c", "any")>>
ShapeOdd    == <<Key("a", "throwing"), Key("b", "arrInt"), Key("toString", "string")>>
ShapeIncr   == <<Key("a", "incr"), Key("b", "optString")>>
Shapes == {ShapeAB, ShapeReadme, ShapeOdd, ShapeIncr}

ObjectOptionValues ==
    {OptionsOmitted,
     ObjOpts(TRUE, "true", FALSE, 0, FALSE, 0, FALSE),
     ObjOpts(TRUE, "false", FALSE, 0, FALSE, 0, FALSE),
     ObjOpts(TRUE, "unset", FALSE, 0, FALSE, 0, TRUE),
     ObjOpts(TRUE, "unset", TRUE, 2, FALSE, 0, FALSE)}

InputKeys == {"a", "b", "x", "toString"}
Leaves == {Str("5"), Str("abc"), Obj(<<>>)}
Scalars == {Num(5), Str("5"), Str("abc"), Undefined, Null, Buf("5")}

\* The mappings of at most n entries with distinct keys.
RECURSIVE Mappings(_)
Mappings(n) ==
    IF n = 0 THEN {<<>>}
    ELSE LET shorter == Mappings(n - 1)
         IN  shorter \cup
             {Append(m, Entry(k, v)) : m \in {x \in shorter : Len(x) = n - 1},
                                       k \in InputKeys, v \in Leaves}
DistinctKeys(m) == \A i, j \in DOMAIN m : m[i].k = m[j].k => i = j

ObjectInputs ==
    {Obj(m) : m \in {x \in Mappings(MaxEntries) : DistinctKeys(x)}}
    \cup {Str(JSONStringify(d)) : d \in JSONDocs}
    \cup {Buf(JSONStringify(d)) : d \in JSONDocs}
    \cup {Num(5), Undefined, Arr(<<Str("5"), Str("abc")>>)}

Elements == {Num(1), Num(5), Str("abc")}
RECURSIVE Sequences(_)
Sequences(n) ==
    IF n = 0 THEN {<<>>}
    ELSE LET shorter == Sequences(n - 1)
         IN  shorter \cup {Append(x, v) : x \in {y \in shorter : Len(y) = n - 1}, v \in Elements}

ArrayInputs == {Arr(x) : x \in Sequences(MaxElems)} \cup Scalars \cup {Obj(<<>>)}
ArrayParsers == {"int", "string", "any", "file", "throwing"}
ArrayOptionValues == {NoOpts, MaxOpt(2), MinOpt(2), [MinOpt(1) EXCEPT !.hasMax = TRUE, !.max = 1]}

AlternativeLists == {<<"int", "string">>, <<"string", "int">>, <<"int", "throwing", "string">>,
                     <<"int", "int">>}
AlternativeInputs == Scalars \cup {Obj(<<>>), Arr(<<Num(1)>>)}

OptionalParsers == {"string", "int", "throwing"}
OptionalInputs == Scalars \cup {Obj(<<>>), Arr(<<Num(1)>>)}

Paths == {<<"root">>, NoPath}
Budgets == {StackFrames, StackFrames + 2}

NoCall == [fn |-> "none", shape |-> <<>>, opts |-> OptionsOmitted, sub |-> "any",
           aopts |-> NoOpts, ps |-> <<>>, v |-> Undefined, path |-> NoPath, b |-> 0]
NoResult == Thrown("pending", <<>>, <<>>)

InitSync ==
    /\ StreamIdle
    /\ pc = "ready"
    /\ ret = NoResult
    /\ \E path \in Paths, b \in Budgets :
         \/ \E shape \in Shapes, opts \in ObjectOptionValues, v \in ObjectInputs :
              call = [NoCall EXCEPT !.fn = "object", !.shape = shape, !.opts = opts,
                                    !.v = v, !.path = path, !.b = b]
         \/ \E sub \in ArrayParsers, aopts \in ArrayOptionValues, v \in ArrayInputs :
              call = [NoCall EXCEPT !.fn = "array", !.sub = sub, !.aopts = aopts,
                                    !.v = v, !.path = path, !.b = b]
         \/ \E ps \in AlternativeLists, v \in AlternativeInputs :
              call = [NoCall EXCEPT !.fn = "alternatives", !.ps = ps,
                                    !.v = v, !.path = path, !.b = b]
         \/ \E sub \in OptionalParsers, v \in OptionalInputs :
              call = [NoCall EXCEPT !.fn = "optional", !.sub = sub,
                                    !.v = v, !.path = path, !.b = b]

\* object(shape, options)(value, path)
CallObject ==
    /\ pc = "ready" /\ call.fn = "object"
    /\ ret' = createParser("object",
                 object(call.shape, ObjectOptions(call.opts), call.v, call.path, call.b - Frames(call.fn)),
                 call.path, call.b)
    /\ pc' = "done"
    /\ UNCHANGED <<call, streamVars>>

\* array(parser, options)(value, path)
CallArray ==
    /\ pc = "ready" /\ call.fn = "array"
    /\ ret' = createParser("array",
                 array(call.sub, call.aopts, call.v, call.path, call.b - Frames(call.fn)), call.path, call.b)
    /\ pc' = "done"
    /\ UNCHANGED <<call, streamVars>>

\* alternatives(...parsers)(value, path)
CallAlternatives ==
    /\ pc = "ready" /\ call.fn = "alternatives"
    /\ ret' = createParser("alternatives",
                 alternatives(call.ps, call.v, call.path, call.b - Frames(call.fn)), call.path, call.b)
    /\ pc' = "done"
    /\ UNCHANGED <<call, streamVars>>

\* optional(parser)(value, path)
CallOptional ==
    /\ pc = "ready" /\ call.fn = "optional"
    /\ ret' = createParser("optional",
                 optional(call.sub, call.v, call.path, call.b - Frames(call.fn)), call.path, call.b)
    /\ pc' = "done"
    /\ UNCHANGED <<call, streamVars>>

NextSync == CallObject \/ CallArray \/ CallAlternatives \/ CallOptional

SpecSync == InitSync /\ [][NextSync]_vars

----------------------------------------------------------------------------
(* Properties of the synchronous combinators.                              *)

Done(fn) == pc = "done" /\ call.fn = fn
\* Frames left to the body of the top-level call.
BodyFrames == call.b - Frames(call.fn)
KeyPath(key) == Append(PathOr(call.path), key)
Contains(msg, part) ==
    \E i \in 0..(Len(msg) - Len(part)) : SubSeq(msg, i + 1, i + Len(part)) = part
WasInvoked(p, path) ==
    \E i \in DOMAIN ret.log : ret.log[i] = Invoked(p, path, BodyFrames)

\* What the parser of a declared key gives on the entry of that key, and on
\* undefined for a declared key that object finds absent.
EntryOutcome(i) ==
    LET en == ObjectEntries(call.v)[i]
    IN  Parse(ShapeParser(call.shape, en.k), en.v, KeyPath(en.k), BodyFrames)
DeclaredEntries ==
    {i \in DOMAIN ObjectEntries(call.v) : ObjectEntries(call.v)[i].k \in ShapeKeys(call.shape)}
AbsentOutcome(i) == Parse(call.shape[i].p, Undefined, KeyPath(call.shape[i].k), BodyFrames)
AbsentKeys == {i \in DOMAIN call.shape : ~HasProperty(call.v, call.shape[i].k)}
FailingEntries == {i \in DeclaredEntries : EntryOutcome(i).st = "ParsingError"}
FailingAbsent == {i \in AbsentKeys : AbsentOutcome(i).st = "ParsingError"}

\* C1: object(shape), with unknown keys ignored, does not stop at the first
\* failing key of a mapping.  If
\* some declared key fails with a ParsingError, the call throws one
\* ParsingError; every declared entry and every absent declared key was
\* handed to its parser before; the message holds the whole message of every
\* failing entry, all its lines tagged <path>.<key>, and a line tagged
\* <path>.<key> for every absent key that failed.
C1_ObjectCollectsEveryError ==
    (Done("object") /\ IgnoreUnknown(ObjectOptions(call.opts)) /\ IsMapping(call.v)
       /\ FailingEntries \cup FailingAbsent # {})
    => /\ ret.st = "ParsingError"
       /\ \A i \in DeclaredEntries :
             WasInvoked(ShapeParser(call.shape, ObjectEntries(call.v)[i].k),
                        KeyPath(ObjectEntries(call.v)[i].k))
       /\ \A i \in AbsentKeys : WasInvoked(call.shape[i].p, KeyPath(call.shape[i].k))
       /\ \A i \in FailingEntries :
             /\ Contains(ret.msg, EntryOutcome(i).msg)
             /\ \A j \in DOMAIN EntryOutcome(i).msg :
                   IsPrefix(KeyPath(ObjectEntries(call.v)[i].k), EntryOutcome(i).msg[j].tag)
       /\ \A i \in FailingAbsent :
             \E j \in DOMAIN ret.msg : ret.msg[j].tag = KeyPath(call.shape[i].k)

\* The test 'object collects multiple errors': {a: 'abc', b: {}} against
\* {a: int(), b: string()} under 'root' fails with both root.a and root.b.
C1_Witness ==
    /\ Done("object") /\ call.opts = OptionsOmitted /\ call.shape = ShapeAB
    /\ call.v = Obj(<<Entry("a", Str("abc")), Entry("b", Obj(<<>>))>>)
    /\ call.path = <<"root">>
    /\ ret.st = "ParsingError"
    /\ ret.msg = <<Line(<<"root", "a">>, "should be an integer"),
                   Line(<<"root", "b">>, "cannot be converted to a string")>>

\* What parser gives on a scalar input, invoked as the one element of [input].
WrappedOutcome ==
    Parse(call.sub, call.v, Append(PathRaw(call.path), "[0]"),
          BodyFrames - Frames("array") - 2)
TooShort == call.aopts.hasMin /\ Len(call.v.e) < call.aopts.min
TooLong  == call.aopts.hasMax /\ Len(call.v.e) > call.aopts.max
\* A length error and nothing else: one line, no element parser invoked.
LengthError ==
    /\ ret.st = "ParsingError"
    /\ Len(ret.msg) = 1
    /\ ret.msg[1].tag = PathOr(call.path)
    /\ ret.msg[1].text \in {"length is less than the allowed minimum",
                            "length is larger than the allowed maximum"}
    /\ Len(ret.log) = 1
ScalarAccepted == ret.st = "ok" /\ ret.v = Arr(<<WrappedOutcome.v>>)
\* A one-element sequence is within the length bounds of the options.
OneFits == /\ call.aopts.hasMin => call.aopts.min <= 1
           /\ call.aopts.hasMax => call.aopts.max >= 1

\* C5 as stated: array(parser, options) returns [parser(input)] for every
\* scalar input that parser accepts, and fails with a length error alone for
\* a sequence shorter than min or longer than max.
C5_ScalarAlwaysAccepted ==
    /\ (Done("array") /\ call.v.t # "Array" /\ WrappedOutcome.st = "ok") => ScalarAccepted
    /\ (Done("array") /\ call.v.t = "Array" /\ (TooShort \/ TooLong)) => LengthError

\* C5 amended: the scalar is accepted when a one-element sequence is within
\* the min/max of the options; the length error is as stated.
C5_ScalarAcceptedWithinBounds ==
    /\ (Done("array") /\ call.v.t # "Array" /\ WrappedOutcome.st = "ok" /\ OneFits)
          => ScalarAccepted
    /\ (Done("array") /\ call.v.t = "Array" /\ (TooShort \/ TooLong)) => LengthError

\* array(int())(5) equals [5], with length options that admit one element.
C5_Witness ==
    /\ Done("array") /\ call.sub = "int" /\ call.v = Num(5)
    /\ call.aopts.hasMin /\ call.aopts.hasMax
    /\ ret.st = "ok" /\ ret.v = Arr(<<Num(5)>>)

Attempt(i) == Parse(call.ps[i], call.v, call.path, BodyFrames)
\* The parsers the body of alternatives invoked itself, in order.
Attempted ==
    LET tops == SelectSeq(ret.log, LAMBDA l : l.b = BodyFrames)
    IN  [i \in DOMAIN tops |-> tops[i].p]

\* C6: alternatives invokes the parsers in order on the path it was given,
\* returns the result of the first parser that succeeds after ParsingErrors
\* of all earlier ones, and invokes no later parser; if
\* every parser fails with a ParsingError it throws one ParsingError that
\* lists the messages of all attempts in parser order.
C6_AlternativesFirstSuccess ==
    Done("alternatives") =>
      /\ \A j \in DOMAIN ret.log : ret.log[j].b = BodyFrames => ret.log[j].at = call.path
      /\ \A i \in DOMAIN call.ps :
            (Attempt(i).st = "ok" /\ \A j \in 1..(i - 1) : Attempt(j).st = "ParsingError")
            => /\ ret.st = "ok" /\ ret.v = Attempt(i).v
               /\ Attempted = SubSeq(call.ps, 1, i)
      /\ (\A i \in DOMAIN call.ps : Attempt(i).st = "ParsingError")
            => /\ ret.st = "ParsingError"
               /\ Attempted = call.ps
               /\ Tail(ret.msg) = Flatten([i \in DOMAIN call.ps |-> Attempt(i).msg])

\* alternatives(int(), string())('abc') returns 'abc' through the second
\* parser, after the ParsingError of the first.
C6_Witness ==
    /\ Done("alternatives") /\ call.ps = <<"int", "string">> /\ call.path = <<"root">>
    /\ call.v = Str("abc") /\ ret.st = "ok" /\ ret.v = Str("abc")
    /\ Attempted = <<"int", "string">>

\* C10: with options that do not set ignoreUnknown to false, object ignores
\* the input keys the shape does not declare: no key is reported as not
\* allowed, and a result holds declared keys only.
C10_UnknownIgnoredByDefault ==
    (Done("object") /\ IsMapping(call.v) /\ call.opts.ignoreUnknown # "false")
    => /\ \A j \in DOMAIN ret.msg : ret.msg[j].text # "is not allowed"
       /\ ret.st = "ok" => OwnKeys(ret.v) \subseteq ShapeKeys(call.shape)

\* The entries of the input whose key the shape does not declare.
UnknownEntries ==
    {i \in DOMAIN ObjectEntries(call.v) : ObjectEntries(call.v)[i].k \notin ShapeKeys(call.shape)}

\* C11: with ignoreUnknown set to false, an input key the shape does not
\* declare is one more collected error.  object still hands every declared
\* entry and every absent declared key to its parser, and the one
\* ParsingError it throws holds a line '<path>.<key> is not allowed' for
\* every unknown key together with the message of every other failing key.
C11_UnknownKeyIsAggregated ==
    (Done("object") /\ call.opts.given /\ call.opts.ignoreUnknown = "false"
       /\ IsMapping(call.v) /\ UnknownEntries # {})
    => /\ ret.st = "ParsingError"
       /\ \A i \in UnknownEntries :
             \E j \in DOMAIN ret.msg :
                ret.msg[j] = Line(KeyPath(ObjectEntries(call.v)[i].k), "is not allowed")
       /\ \A i \in DeclaredEntries :
             WasInvoked(ShapeParser(call.shape, ObjectEntries(call.v)[i].k),
                        KeyPath(ObjectEntries(call.v)[i].k))
       /\ \A i \in AbsentKeys : WasInvoked(call.shape[i].p, KeyPath(call.shape[i].k))
       /\ \A i \in FailingEntries : Contains(ret.msg, EntryOutcome(i).msg)
       /\ \A i \in FailingAbsent :
             \E j \in DOMAIN ret.msg : ret.msg[j].tag = KeyPath(call.shape[i].k)

\* The declared keys that are not among the entries of the input.
MissingKeys ==
    {i \in DOMAIN call.shape :
        \A j \in DOMAIN ObjectEntries(call.v) : ObjectEntries(call.v)[j].k # call.shape[i].k}

\* C12: for every declared key missing from the input mapping, object applies
\* the parser of the key to undefined under <path>.<key>.  If that succeeds,
\* a successful result holds the value under the key; if it fails, the call
\* throws a ParsingError with a line tagged <path>.<key>.
C12_MissingKeyParsedFromUndefined ==
    (Done("object") /\ IsMapping(call.v)
       /\ (UnknownEntries = {} \/ IgnoreUnknown(ObjectOptions(call.opts))))
    => \A i \in MissingKeys :
          /\ WasInvoked(call.shape[i].p, KeyPath(call.shape[i].k))
          /\ IF AbsentOutcome(i).st = "ok"
             THEN ret.st = "ok" => /\ call.shape[i].k \in OwnKeys(ret.v)
                                   /\ Lookup(ret.v, call.shape[i].k) = AbsentOutcome(i).v
             ELSE /\ ret.st = "ParsingError"
                  /\ \E j \in DOMAIN ret.msg : ret.msg[j].tag = KeyPath(call.shape[i].k)

\* No parser but optional itself was invoked.
ShortCircuit == ret.log = <<Invoked("optional", call.path, call.b)>>

Again == object(call.shape, ObjectOptions(call.opts), ret.v, call.path, BodyFrames)

\* The input is a mapping that matches the shape: the parser of every
\* declared key accepts what the input holds for it, undefined if nothing.
KeysAccepted ==
    /\ IsMapping(call.v)
    /\ \A i \in DeclaredEntries : EntryOutcome(i).st = "ok"
    /\ \A i \in MissingKeys : AbsentOutcome(i).st = "ok"
\* Parser p returns its own result v unchanged.
Stable(p, v, path) ==
    LET r == Parse(p, v, path, BodyFrames) IN r.st = "ok" /\ r.v = v
ParsersStable ==
    /\ \A i \in DeclaredEntries :
          Stable(ShapeParser(call.shape, ObjectEntries(call.v)[i].k), EntryOutcome(i).v,
                 KeyPath(ObjectEntries(call.v)[i].k))
    /\ \A i \in MissingKeys :
          Stable(call.shape[i].p, AbsentOutcome(i).v, KeyPath(call.shape[i].k))

\* C20, as stated: for every shape and every input that matches the shape,
\* applying object(shape) to its own result succeeds and returns an equal
\* result.
C20_ObjectIdempotent ==
    (Done("object") /\ ret.st = "ok" /\ KeysAccepted)
    => Again.st = "ok" /\ Again.v = ret.v

\* C20, amended: object(shape) is idempotent on the inputs that match the
\* shape provided every key parser returns its own result unchanged.
C20_ObjectIdempotentOnStableParsers ==
    (Done("object") /\ ret.st = "ok" /\ KeysAccepted /\ ParsersStable)
    => Again.st = "ok" /\ Again.v = ret.v

\* The shape of the readme: {a: '5', b: 'abc'} gives {a: 5, b: 'abc',
\* c: undefined}, and so does the result itself.
C20_Witness ==
    /\ Done("object") /\ call.shape = ShapeReadme
    /\ call.v = Obj(<<Entry("a", Str("5")), Entry("b", Str("abc"))>>)
    /\ ret.st = "ok" /\ KeysAccepted /\ ParsersStable
    /\ ret.v = Obj(<<Entry("a", Num(5)), Entry("b", Str("abc")), Entry("c", Undefined)>>)
    /\ Again.st = "ok" /\ Again.v = ret.v

\* The mapping the JSON fallback of object decodes from a string or bytes.
Decoded == JSONparse(call.v.s)
\* object(shape, options) called on that mapping itself, with the same path.
Direct == object(call.shape, ObjectOptions(call.opts), Decoded, call.path, BodyFrames)
ThroughFallback ==
    /\ Done("object") /\ call.v.t \in {"string", "Buffer"}
    /\ IsJSON(call.v.s) /\ Decoded.t = "Object"

\* C23: object(shape) on a string or byte payload whose JSON decoding is a
\* mapping with invalid keys throws a ParsingError that holds the path-tagged
\* message of every failing key, the failures of parsing the decoded mapping
\* directly.
C23_FallbackKeepsKeyFailures ==
    (ThroughFallback /\ Direct.st = "ParsingError")
       => /\ ret.st = "ParsingError"
          /\ \A j \in DOMAIN Direct.msg : Contains(ret.msg, <<Direct.msg[j]>>)

\* What parser gives on element i of the sequence array was called on.
ElementOutcome(i) ==
    Parse(call.sub, call.v.e[i],
          Append(PathRaw(call.path), "[" \o ToString(i - 1) \o "]"), BodyFrames - 2)
FailingElements == {i \in DOMAIN call.v.e : ElementOutcome(i).st = "ParsingError"}
\* The sequence of the elements of s at the indexes in set, in index order.
Pick(s, set) ==
    LET idx == SelectSeq([i \in DOMAIN s |-> i], LAMBDA i : i \in set)
    IN  [k \in DOMAIN idx |-> s[idx[k]]]
\* array(parser, options)([input], path), the retry of the body.
RetryOutcome ==
    createParser("array",
       array(call.sub, call.aopts, Arr(<<call.v>>), call.path, BodyFrames - Frames("array")),
       call.path, BodyFrames)
ElementFailures ==
    /\ Done("array") /\ call.v.t = "Array" /\ ~TooShort /\ ~TooLong
    /\ FailingElements # {}

\* C24: for a sequence within the length bounds, array applies parser to
\* every element; when an element fails with a ParsingError it parses
\* [input] again: the result of that retry is returned when it succeeds, and
\* otherwise one ParsingError is thrown that joins the messages of the
\* failing elements of the first attempt in index order, tagged <path>[i].
C24_ArrayRetriesWrappedInput ==
    ElementFailures =>
       /\ \A i \in DOMAIN call.v.e :
             \E j \in DOMAIN ret.log :
                ret.log[j] = Invoked(call.sub,
                                Append(PathRaw(call.path), "[" \o ToString(i - 1) \o "]"),
                                BodyFrames - 2)
       /\ IF RetryOutcome.st = "ok"
          THEN ret.st = "ok" /\ ret.v = RetryOutcome.v
          ELSE /\ ret.st = "ParsingError"
               /\ ret.msg = Flatten(Pick([i \in DOMAIN call.v.e |-> ElementOutcome(i).msg],
                                         FailingElements))

\* array(file())([1, 5]): no number is a file, the sequence of bytes is one.
C24_WitnessRetryAccepted ==
    /\ ElementFailures /\ call.sub = "file" /\ call.v = Arr(<<Num(1), Num(5)>>)
    /\ RetryOutcome.st = "ok" /\ ret.st = "ok" /\ Len(ret.v.e) = 1

\* array(int())([1, 'abc', 'abc']) fails with the messages of elements 1, 2.
C24_Witness ==
    /\ ElementFailures /\ call.sub = "int" /\ call.path = <<"root">>
    /\ call.v = Arr(<<Num(1), Str("abc"), Str("abc")>>)
    /\ ret.st = "ParsingError"
    /\ ret.msg = <<Line(<<"root", "[1]">>, "should be an integer"),
                   Line(<<"root", "[2]">>, "should be an integer")>>

\* The calls of object in one top-level call: the call itself and one for
\* every value the JSON fallback decoded and parsed again.
ObjectCalls == Len(SelectSeq(ret.log, LAMBDA l : l.p = "object"))

\* C25: object makes one JSON fallback per call: an input that is not a
\* mapping is decoded once and the decoded value parsed; a decoded value
\* that is no mapping either (5, '5') fails with 'cannot be converted to an
\* object' and is not decoded and parsed again.
C25_OneJSONFallback ==
    (Done("object") /\ ~IsMapping(call.v))
       => /\ ObjectCalls <= 2
          /\ (call.v.t \in {"string", "number"} /\ IsJSON(string(NoOpts, call.v, call.path, 0).v.s)
                /\ ~IsMapping(JSONparse(string(NoOpts, call.v, call.path, 0).v.s)))
               => /\ ret.st = "ParsingError"
                  /\ ret.msg = <<Line(PathRaw(call.path), "cannot be converted to an object")>>

\* The first parser of alternatives that fails with something else than a
\* ParsingError, all earlier ones having failed with one.
Breaks(i) ==
    /\ Attempt(i).st \notin {"ok", "ParsingError"}
    /\ \A j \in 1..(i - 1) : Attempt(j).st = "ParsingError"

\* C26: when a parser of alternatives fails with an exception that is no
\* ParsingError, alternatives throws that exception at once: no later parser
\* is invoked and the exception is not folded into the aggregate error.
C26_AlternativesRethrows ==
    Done("alternatives") =>
       \A i \in DOMAIN call.ps :
          Breaks(i) => /\ ret.st = Attempt(i).st /\ ret.msg = Attempt(i).msg
                       /\ Attempted = SubSeq(call.ps, 1, i)

\* alternatives(int(), throwing, string())('abc'): the Error of the second
\* parser comes out, string() is never asked.
C26_Witness ==
    /\ Done("alternatives") /\ call.ps = <<"int", "throwing", "string">>
    /\ call.v = Str("abc") /\ Breaks(2)
    /\ ret.st = "Error" /\ Attempted = <<"int", "throwing">>

\* The calls of array in one top-level call: the call itself and one for
\* every wrap-and-retry.
ArrayCalls == Len(SelectSeq(ret.log, LAMBDA l : l.p = "array" /\ l.at = call.path))

\* C35: array(parser, options) ends within a recursion depth that does not
\* depend on the input: the wrap-and-retry, entered for an input that is no
\* sequence or for a failing element, is taken once and does not enter
\* itself again when parser rejects the wrapped input too.
C35_ArrayRetryIsBounded ==
    Done("array") => ArrayCalls <= 2

\* C36: when object(shape) returns a result for a mapping, the result holds
\* under every declared key of the input the value the parser of the key
\* returned: no key whose parser threw, a ParsingError or anything else, is
\* left out of a result.
C36_NoDeclaredKeyLeftOut ==
    (Done("object") /\ call.v.t = "Object" /\ ret.st = "ok")
       => \A i \in DeclaredEntries :
             /\ EntryOutcome(i).st = "ok"
             /\ ObjectEntries(call.v)[i].k \in OwnKeys(ret.v)
             /\ Lookup(ret.v, ObjectEntries(call.v)[i].k) = EntryOutcome(i).v

\* C37: when array(parser) returns from its element loop without the
\* wrap-and-retry, the result has one entry for every element of the input,
\* in input order, result[i] being parser(input[i]): no element whose parser
\* threw, a ParsingError or anything else, is dropped from a result.
C37_NoElementDropped ==
    (Done("array") /\ call.v.t = "Array" /\ ~TooShort /\ ~TooLong /\ FailingElements = {}
       /\ ret.st = "ok")
       => /\ Len(ret.v.e) = Len(call.v.e)
          /\ \A i \in DOMAIN call.v.e :
                ElementOutcome(i).st = "ok" /\ ret.v.e[i] = ElementOutcome(i).v

----------------------------------------------------------------------------
(* File storage and the spooling policy.                                   *)

\* Chunks a source stream delivers.
MaxChunks == 3

\* options?.maxForRAM ?? 1024 * 1024
DefaultMaxForRAM == 1048576
Threshold(opts) == IF opts.hasMaxForRAM THEN opts.maxForRAM ELSE DefaultMaxForRAM

\* A chunk of bytes: its length, and a name for its content.
Chunk(id, len) == Val("Chunk", len, id, <<>>)
RECURSIVE Bytes(_)
Bytes(chunks) == IF chunks = <<>> THEN 0 ELSE Head(chunks).n + Bytes(Tail(chunks))

\* The outcome of a disk operation is "ok" or "fail" (the fs call throws).
IO == {"ok", "fail"}

\* A variant of appendSync that keeps every File in memory.
appendSyncInMemory(f, chunk, dsk, io) ==
    [file |-> RAMFileV(f.n + chunk.n, Append(f.e, chunk)), disk |-> dsk, threw |-> FALSE]

\* file.appendSync(chunk): RAMFile concatenates; TempFile adds to size and
\* then appends to its backing file.
appendSync(f, chunk, dsk, io) ==
    IF f.t = "RAMFile"
    THEN [file |-> RAMFileV(f.n + chunk.n, Append(f.e, chunk)), disk |-> dsk, threw |-> FALSE]
    ELSE [file |-> TempFileV(f.n + chunk.n, f.s),
          disk |-> IF io = "ok" THEN [dsk EXCEPT ![f.s] = Append(@, chunk)] ELSE dsk,
          threw |-> io # "ok"]

\* A variant of saveSync that creates the file and writes nothing.
saveSyncEmpty(f, path, dsk, io) ==
    [disk |-> IF io = "ok" THEN (path :> <<>>) @@ dsk ELSE dsk, threw |-> io # "ok"]

\* RAMFile.saveSync(path): fs.writeFileSync(path, this.data)
saveSync(f, path, dsk, io) ==
    [disk |-> IF io = "ok" THEN (path :> f.e) @@ dsk ELSE dsk, threw |-> io # "ok"]

\* Path.join(options.tempDir ?? os.tmpdir(), <random name><suffix>): a name
\* no file on the disk has.
TempPath(opts, dsk, suffix) ==
    (IF opts.hasTempDir THEN "tempDir/" ELSE "tmpdir/")
       \o "r" \o ToString(Cardinality(DOMAIN dsk) + 1) \o suffix

\* A variant of the upgrade test that upgrades at the threshold already.
ExceedsOrMeets(size, opts) == size >= Threshold(opts)

\* file.size > (options?.maxForRAM ?? 1024 * 1024)
Exceeds(size, opts) == size > Threshold(opts)

\* The 'data' handler of a file stream: append, then upgrade a RAMFile whose
\* size exceeds the threshold.  threw: an exception left the handler.
onFileData(f, chunk, opts, suffix, dsk, io) ==
    LET a == appendSync(f, chunk, dsk, io)
        path == TempPath(opts, dsk, suffix)
        s == saveSync(a.file, path, a.disk, io)
    IN  IF a.threw THEN a
        ELSE IF Exceeds(a.file.n, opts) /\ a.file.t = "RAMFile"
        THEN IF s.threw THEN [file |-> a.file, disk |-> s.disk, threw |-> TRUE]
             ELSE [file |-> TempFileV(a.file.n, path), disk |-> s.disk, threw |-> FALSE]
        ELSE a

\* A file sub-stream with its accumulator; total counts the bytes the stream
\* delivered to the 'data' handler.
FilePart(name, filename) ==
    [name |-> name, filename |-> filename, acc |-> RAMFileV(0, <<>>), total |-> 0,
     ended |-> FALSE, failed |-> FALSE]

----------------------------------------------------------------------------
(* file(options).stream(stream, path).                                     *)

\* A token of a body: k is its kind.
Tok(k, name, val, len) == [k |-> k, name |-> name, val |-> val, len |-> len]
Data(id, len) == Tok("data", "", id, len)
ChunkOf(tok) == Chunk(tok.val, tok.len)

ChunkLens == {1, 2, DefaultMaxForRAM}
\* The bodies of a file stream: up to MaxChunks chunks of file bytes.
FileBodies ==
    UNION {{[i \in 1..n |-> <<Data("c" \o ToString(i), lens[i])>>] : lens \in [1..n -> ChunkLens]}
           : n \in 0..MaxChunks}
FileOptionValues ==
    {NoFileOpts,
     FileOpts(TRUE, FALSE, 0, TRUE, 2, FALSE),     \* {maxForRAM: 2}
     FileOpts(TRUE, TRUE, 2, FALSE, 0, FALSE),     \* {max: 2}
     FileOpts(TRUE, TRUE, 0, TRUE, 0, TRUE)}       \* {max: 0, maxForRAM: 0, tempDir}

SyncIdle == pc = "idle" /\ call = NoCall /\ ret = NoResult

InitFileStream ==
    /\ SyncIdle
    /\ \E fopts \in FileOptionValues, path \in Paths, body \in FileBodies :
          session = [NoSession EXCEPT !.mode = "file", !.fopts = fopts, !.path = path,
                                      !.body = body, !.b = StackFrames]
    /\ cursor = 1 /\ source = "open"
    /\ sniffer = IdleSniffer
    /\ decoder = IdleDecoder
    /\ fileParts = <<FilePart("", "")>>
    /\ queue = <<>> /\ fieldMap = <<>> /\ arrivals = <<>> /\ subErrors = <<>>
    /\ inner = Pending /\ outer = Pending
    /\ rest = [st |-> "idle", data |-> <<>>]
    /\ fsDisk = EmptyDisk /\ uncaught = 0 /\ ioFailed = FALSE

\* stream.on('data', ...)
FileStreamData ==
    /\ session.mode = "file" /\ source = "open" /\ cursor <= Len(session.body)
    /\ \E io \in IO :
         LET chunk == ChunkOf(session.body[cursor][1])
             r == onFileData(fileParts[1].acc, chunk, session.fopts, "", fsDisk, io)
         IN  /\ fileParts' = <<[fileParts[1] EXCEPT !.acc = r.file, !.total = @ + chunk.n]>>
             /\ fsDisk' = r.disk
             /\ uncaught' = uncaught + (IF r.threw THEN 1 ELSE 0)
             /\ ioFailed' = (ioFailed \/ r.threw)
    /\ cursor' = cursor + 1
    /\ UNCHANGED <<syncVars, session, source, sniffer, decoder, queue, fieldMap, arrivals,
                   subErrors, inner, outer, rest>>

\* stream.on('end', () => resolve(parser(file))): an exception of parser
\* leaves the listener, and the promise pending.
FileStreamEnd ==
    /\ session.mode = "file" /\ source = "open" /\ cursor > Len(session.body)
    /\ source' = "ended"
    /\ LET r == file(session.fopts, fileParts[1].acc, NoPath, session.b)
       IN  /\ outer' = IF r.st = "ok" /\ outer.st = "pending" THEN Resolved(r.v) ELSE outer
           /\ uncaught' = uncaught + (IF r.st = "ok" THEN 0 ELSE 1)
    /\ fileParts' = <<[fileParts[1] EXCEPT !.ended = TRUE]>>
    /\ UNCHANGED <<syncVars, session, cursor, sniffer, decoder, queue, fieldMap, arrivals,
                   subErrors, inner, rest, fsDisk, ioFailed>>

\* stream.on('error', ...): the stream is destroyed and delivers no more.
FileStreamError ==
    /\ session.mode = "file" /\ source = "open"
    /\ source' = "errored"
    /\ outer' = IF outer.st = "pending"
                THEN Rejected("ParsingError", <<Line(PathOr(session.path), "failed to read file")>>)
                ELSE outer
    /\ UNCHANGED <<syncVars, session, cursor, sniffer, decoder, fileParts, queue, fieldMap,
                   arrivals, subErrors, inner, rest, fsDisk, uncaught, ioFailed>>

----------------------------------------------------------------------------
(* object(shape, options).stream(stream, path): boundary sniffing, the     *)
(* multipart decoder, the handlers of parseFormDataStream, the fallback;   *)
(* and parseFormData(stream, busboyConfig, options) called by itself.      *)

\* const MAX_BUFFER_SIZE = 1024
MAX_BUFFER_SIZE == 1024

\* The tokens of a body.  A boundary line, a complete field part, the header
\* of a file part, the delimiter that ends a file part and the closing
\* delimiter hold a CRLF; file bytes, a one-line JSON text, filler and the
\* head of a boundary line do not.  DelimHead and DelimTail are the boundary
\* line --XYZ CRLF in two pieces; LongDelim is a boundary line longer than
\* MAX_BUFFER_SIZE.
Delim == Tok("delim", "", "B", 5)
DelimHead == Tok("head", "", "X", 3)
DelimTail == Tok("tail", "", "YZ", 4)
LongDelim == Tok("delim", "", "L", MAX_BUFFER_SIZE + 6)
Field(name, val) == Tok("field", name, val, 8)
FileHeader(name, filename) == Tok("file", name, filename, 8)
PartEnd == Tok("partend", "", "", 5)
Close == Tok("close", "", "", 7)
Junk == Tok("junk", "", "", 3)
Json(text) == Tok("json", "", text, Len(text))
TextLine == Tok("text", "", "{", 3)
Filler == Tok("filler", "", "", MAX_BUFFER_SIZE + 1)

HasCRLF(toks) == \E i \in DOMAIN toks : toks[i].k \notin {"data", "json", "filler", "head"}
\* The characters of a token before its line break; a boundary name and
\* the text of any other token count as one character each.
LineText(tok) ==
    CASE tok.k = "delim" -> <<"-", "-", tok.val>>
      [] tok.k = "head"  -> <<"-", "-", "X">>
      [] tok.k = "tail"  -> <<"Y", "Z">>
      [] tok.k = "close" -> <<"-", "-", "B", "-", "-">>
      [] OTHER -> <<tok.k>>
\* searchBuffer.subarray(0, crlfIndex)
RECURSIVE firstLine(_)
firstLine(toks) ==
    IF toks = <<>> THEN <<>>
    ELSE IF HasCRLF(<<Head(toks)>>) THEN LineText(Head(toks))
    ELSE LineText(Head(toks)) \o firstLine(Tail(toks))
\* firstLine.startsWith('--')
StartsWithDashes(toks) ==
    LET line == firstLine(toks) IN Len(line) >= 2 /\ line[1] = "-" /\ line[2] = "-"
\* firstLine.slice(2)
slice(line) == SubSeq(line, 3, Len(line))
RECURSIVE Length(_)
Length(toks) == IF toks = <<>> THEN 0 ELSE Head(toks).len + Length(Tail(toks))
\* The text of the bytes of a body, without its line breaks.
RECURSIVE TextOf(_)
TextOf(toks) ==
    IF toks = <<>> THEN ""
    ELSE (IF Head(toks).k \in {"json", "text"} THEN Head(toks).val ELSE "--" \o Head(toks).k)
         \o TextOf(Tail(toks))

\* fields[fieldname] of a name the map only inherits from Object.prototype.
Inherited(name) == Val("function", 0, name, <<>>)

\* A variant of the update that installs nothing.
InstallNothing(fields, name, value) == fields

\* The three-way update of the Field Map in the 'field' handler and in the
\* 'end' handler of a file sub-stream.
Install(fields, name, value) ==
    LET present == HasProperty(Obj(fields), name)
        cur == IF name \in OwnKeys(Obj(fields)) THEN Lookup(Obj(fields), name)
               ELSE Inherited(name)
    IN  IF present /\ cur.t = "Array" THEN SetKey(fields, name, Arr(Append(cur.e, value)))
        ELSE IF present THEN SetKey(fields, name, Arr(<<cur, value>>))
        ELSE SetKey(fields, name, value)

PromiseOf(r) == IF r.st = "ok" THEN Resolved(r.v) ELSE Rejected(r.st, r.msg)
\* resolve and reject have no effect on a settled promise.
SettleWith(promise, outcome) == IF promise.st = "pending" THEN outcome ELSE promise

\* A variant of the 'finish' handler that leaves the path out.
onFinishWithoutPath(shape, opts, fields, path, errs, b) ==
    IF errs # <<>> THEN Rejected("Array", errs)
    ELSE PromiseOf(createParser("object", object(shape, opts, Obj(fields), NoPath, b - 2), NoPath, b))

\* The 'finish' handler of the decoder.
onFinish(shape, opts, fields, path, errs, b) ==
    IF errs # <<>> THEN Rejected("Array", errs)
    ELSE PromiseOf(createParser("object", object(shape, opts, Obj(fields), path, b - 2), path, b))

\* A variant of the 'error' handler that leaves the promise alone.
onErrorIgnored(promise, err) == promise

\* busboy.on('error', err => reject(err))
onError(promise, err) == SettleWith(promise, Rejected("Error", err))

\* The event of the decoder a token gives rise to.
Event(tok) == IF tok.k \in {"field", "file"} THEN tok.k ELSE "error"

\* The decoder consuming one token of a written chunk; st holds the parts
\* of the state the decoder and the 'field' and 'file' handlers change.
Consume(st, tok) ==
    IF tok.k \in {"delim", "head", "tail"} THEN st
    ELSE IF tok.k = "close" THEN [st EXCEPT !.decoder.closed = TRUE]
    ELSE IF tok.k \in {"data", "partend"} /\ "file" \notin st.decoder.listeners THEN st
    ELSE IF tok.k \notin {"data", "partend"} /\ Event(tok) \notin st.decoder.listeners
    THEN [st EXCEPT !.decoder.unheard = TRUE,
                    !.decoder.st = IF Event(tok) = "error" THEN "errored" ELSE @]
    ELSE CASE tok.k = "field" ->
           [st EXCEPT !.fieldMap = Install(@, tok.name, Str(tok.val)),
                      !.arrivals = Append(@, Entry(tok.name, Str(tok.val)))]
      [] tok.k = "file" ->
           [st EXCEPT !.fileParts = Append(@, FilePart(tok.name, tok.val))]
      [] tok.k = "data" ->
           [st EXCEPT !.queue = Append(@, [k |-> "data", part |-> Len(st.fileParts),
                                           chunk |-> ChunkOf(tok)])]
      [] tok.k = "partend" ->
           [st EXCEPT !.queue = Append(@, [k |-> "end", part |-> Len(st.fileParts),
                                           chunk |-> Chunk("", 0)])]
      [] OTHER ->
           [st EXCEPT !.decoder.st = "errored",
                      !.inner = onError(@, <<Line(<<>>, "Malformed part header")>>)]

\* The boundary of the delimiter lines of the body.
Delimiter == slice(firstLine(Flatten(session.body)))

\* The tokens are consumed in order, until an error.  A decoder configured
\* with another boundary than the one of the body finds no delimiter: all
\* it is given is preamble.
RECURSIVE Feed(_, _)
Feed(st, toks) ==
    IF toks = <<>> \/ st.decoder.st # "running" \/ st.decoder.boundary # Delimiter THEN st
    ELSE Feed(Consume(st, Head(toks)), Tail(toks))

\* busboy.write(chunk)
Write(st, toks) == Feed([st EXCEPT !.decoder.fed = @ \o toks], toks)

\* A variant of parseOptions that prefers contentType to boundary.
parseOptionsContentTypeFirst(options) ==
    IF options.contentType.given /\ options.contentType.boundary # <<>>
    THEN options.contentType.boundary
    ELSE options.boundary

\* parseOptions: the boundary the options give, <<>> for null.
parseOptions(options) ==
    LET contentType == IF options.contentType.given THEN options.contentType
                       ELSE IF options.lower.given THEN options.lower ELSE options.upper
        contentTypeHeader == IF options.lower.given THEN options.lower ELSE options.upper
    IN  IF options.boundary # <<>> THEN options.boundary
        ELSE IF contentType.given /\ contentType.boundary # <<>> THEN contentType.boundary
        ELSE IF contentTypeHeader.given /\ contentTypeHeader.boundary # <<>>
        THEN contentTypeHeader.boundary
        ELSE <<>>

\* A variant of createBusBoy that writes searchBuffer at once.
createBusBoyStarted(boundary, searchBuffer) ==
    [IdleDecoder EXCEPT !.st = "running", !.boundary = boundary, !.scratch = searchBuffer,
                        !.fed = searchBuffer]

\* createBusBoy: a decoder configured with boundary, not yet started.
createBusBoy(boundary, searchBuffer) ==
    [IdleDecoder EXCEPT !.st = "created", !.boundary = boundary, !.scratch = searchBuffer]

\* busboy.on('field'), .on('file'), .on('error'), .on('finish') of
\* parseFormDataStream.
attach(st) == [st EXCEPT !.decoder.listeners = {"field", "file", "error", "finish"}]

\* A variant of start that does not write searchBuffer.
startWithoutReplay(st) == [st EXCEPT !.decoder.st = "running"]

\* The start function createBusBoy returns: busboy.write(searchBuffer), then
\* the stream is piped.
start(st) == Write([st EXCEPT !.decoder.st = "running"], st.decoder.scratch)

\* The catch of the stream parser: a ParsingError is rethrown; anything
\* else starts streamToBuffer on the stream, which listens from then on.
IsFallback(promise) == promise.st = "rejected" /\ promise.kind # "ParsingError"
Relay(promise) == IF promise.st = "pending" \/ IsFallback(promise) THEN Pending ELSE promise

ObjectSession == session.mode = "object"
Options == ObjectOptions(session.oopts)

\* The token lists of the bodies.
FormTokens ==
    <<Delim, Field("name", "John"), Field("age", "30"),
      FileHeader("file", "a.txt"), Data("a", 3), PartEnd,
      FileHeader("file", "b.txt"), Data("b", 1), PartEnd, Close>>
TokenLists ==
    {FormTokens,
     <<Json("{\"test\":\"test\"}")>>,
     <<TextLine, Json("\"test\":\"test\"}")>>,
     <<Filler, Delim, Field("test", "x"), Close>>,
     <<Filler>>,
     <<DelimHead, DelimTail, Field("test", "x"), Close>>,
     <<LongDelim, Field("test", "x"), Close>>,
     <<Delim, Field("toString", "x"), Field("test", "test"), Close>>,
     <<Delim, Field("tag", "a"), Field("tag", "b"), Field("tag", "c"), Close>>,
     <<Delim, Field("test", "x"), Junk, Json("{\"test\":\"test\"}")>>,
     <<Delim, FileHeader("file", "a.txt"), Data("a", 3)>>,
     <<Delim, FileHeader("file", "big.bin"), Data("a", DefaultMaxForRAM), Data("b", 1),
       PartEnd, Close>>,
     <<Delim, FileHeader("tag", "a.txt"), Data("a", 2), PartEnd, Field("tag", "z"),
       Field("extra", "x"), Close>>}
\* A body arrives in one chunk, or every token in a chunk of its own.
ObjectBodies ==
    {<<toks>> : toks \in TokenLists} \cup {[i \in DOMAIN toks |-> <<toks[i]>>] : toks \in TokenLists}

ShapeForm == <<Key("name", "string"), Key("age", "int"), Key("file", "arrFile")>>
ShapeTest == <<Key("test", "string")>>
ShapeTag  == <<Key("tag", "any"), Key("test", "optString")>>
StreamShapes == {ShapeForm, ShapeTest, ShapeTag}
StreamOptionValues ==
    {OptionsOmitted,
     ObjOpts(TRUE, "unset", TRUE, 2, FALSE, 0, FALSE),     \* {maxFileMemory: 2}
     ObjOpts(TRUE, "unset", FALSE, 0, TRUE, 2, TRUE),      \* {maxForRAM: 2, tempDir}
     ObjOpts(TRUE, "false", FALSE, 0, FALSE, 0, FALSE)}    \* {ignoreUnknown: false}

\* The stream carries no headers, or headers whose content-type names the
\* boundary B.
StreamHeaders == {<<>>, <<"B">>}

InitObjectStream ==
    /\ SyncIdle
    /\ \E shape \in StreamShapes, oopts \in StreamOptionValues, path \in Paths,
          body \in ObjectBodies, headers \in StreamHeaders :
          session = [NoSession EXCEPT !.mode = "object", !.oopts = oopts, !.shape = shape,
                                      !.path = path, !.body = body, !.b = StackFrames,
                                      !.headers = headers]
    /\ cursor = 1 /\ source = "open"
    /\ sniffer = [IdleSniffer EXCEPT !.st = "pending"]
    /\ decoder = IdleDecoder
    /\ fileParts = <<>>
    /\ queue = <<>> /\ fieldMap = <<>> /\ arrivals = <<>> /\ subErrors = <<>>
    /\ inner = Pending /\ outer = Pending
    /\ rest = [st |-> "idle", data |-> <<>>]
    /\ fsDisk = EmptyDisk /\ uncaught = 0 /\ ioFailed = FALSE

\* The bodies and options of the calls of parseFormData itself.
FormDataTokenLists ==
    {<<Delim, Field("test", "x"), Close>>,
     <<DelimHead, DelimTail, Field("test", "x"), Close>>,
     <<LongDelim, Field("test", "x"), Close>>,
     <<Filler, Delim, Field("test", "x"), Close>>,
     <<Filler>>,
     <<TextLine, Json("\"test\":\"test\"}")>>}
FormDataBodies ==
    {<<toks>> : toks \in FormDataTokenLists}
    \cup {[i \in DOMAIN toks |-> <<toks[i]>>] : toks \in FormDataTokenLists}
KnownOptionValues ==
    {NoFormDataParseOptions,
     FormDataParseOptions(<<"B">>, NoContentType, NoContentType, NoContentType),
     FormDataParseOptions(<<"B">>, ContentType(TRUE, <<"C">>), ContentType(TRUE, <<"H">>),
                          NoContentType),
     FormDataParseOptions(<<"E">>, NoContentType, NoContentType, NoContentType),
     FormDataParseOptions(<<>>, ContentType(TRUE, <<"B">>), ContentType(TRUE, <<"H">>),
                          NoContentType),
     FormDataParseOptions(<<>>, ContentType(TRUE, <<>>), NoContentType, ContentType(TRUE, <<"B">>)),
     FormDataParseOptions(<<>>, NoContentType, ContentType(TRUE, <<"B">>), ContentType(TRUE, <<"H">>)),
     FormDataParseOptions(<<>>, NoContentType, NoContentType, ContentType(TRUE, <<"X", "Y", "Z">>)),
     FormDataParseOptions(<<>>, NoContentType, ContentType(TRUE, <<>>), ContentType(TRUE, <<"B">>)),
     FormDataParseOptions(<<>>, ContentType(TRUE, <<>>), NoContentType, NoContentType)}

InitFormData ==
    /\ SyncIdle
    /\ \E known \in KnownOptionValues, body \in FormDataBodies :
          session = [NoSession EXCEPT !.mode = "formdata", !.known = known, !.body = body]
    /\ cursor = 1 /\ source = "open"
    /\ sniffer = IdleSniffer
    /\ decoder = IdleDecoder
    /\ fileParts = <<>>
    /\ queue = <<>> /\ fieldMap = <<>> /\ arrivals = <<>> /\ subErrors = <<>>
    /\ inner = Pending /\ outer = Pending
    /\ rest = [st |-> "idle", data |-> <<>>]
    /\ fsDisk = EmptyDisk /\ uncaught = 0 /\ ioFailed = FALSE

----------------------------------------------------------------------------
(* parser.stream(stream, path) of a parser created without a stream        *)
(* parser: parser_(await streamToBuffer(stream), path).                    *)

\* A variant of the 'data' listener that puts the chunk in front.
onDataPrepend(data, chunk) == chunk \o data

\* The 'data' listener of streamToBuffer:
\* data = Buffer.concat([data, Buffer.from(chunk)])
onData(data, chunk) == data \o chunk

\* The continuation of the await: parser_(buffer, path).
defaultStreamParser(sub, data, path, b) == PromiseOf(Parse(sub, Buf(TextOf(data)), path, b))

DefaultParsers == {"string", "int", "arrInt", "altIntString", "incr", "throwing"}
DefaultTexts ==
    {<<>>, <<Json("5")>>, <<Json("1"), Json("5")>>, <<Json("abc")>>, <<Json("5"), Json("abc")>>,
     <<Json("1"), Json("2"), Json("3")>>}
\* The text arrives in one chunk, or every piece in a chunk of its own.
DefaultBodies ==
    {<<toks>> : toks \in DefaultTexts} \cup {[i \in DOMAIN toks |-> <<toks[i]>>] : toks \in DefaultTexts}

InitDefaultStream ==
    /\ SyncIdle
    /\ \E sub \in DefaultParsers, path \in Paths, body \in DefaultBodies :
          session = [NoSession EXCEPT !.mode = "default", !.sub = sub, !.path = path,
                                      !.body = body, !.b = StackFrames]
    /\ cursor = 1 /\ source = "open"
    /\ sniffer = IdleSniffer
    /\ decoder = IdleDecoder
    /\ fileParts = <<>>
    /\ queue = <<>> /\ fieldMap = <<>> /\ arrivals = <<>> /\ subErrors = <<>>
    /\ inner = Pending /\ outer = Pending
    /\ rest = [st |-> "reading", data |-> <<>>]
    /\ fsDisk = EmptyDisk /\ uncaught = 0 /\ ioFailed = FALSE

\* stream.on('data', ...) of streamToBuffer
DefaultData ==
    /\ session.mode = "default" /\ source = "open" /\ cursor <= Len(session.body)
    /\ cursor' = cursor + 1
    /\ rest' = [rest EXCEPT !.data = onData(@, session.body[cursor])]
    /\ UNCHANGED <<syncVars, session, source, sniffer, decoder, fileParts, queue, fieldMap,
                   arrivals, subErrors, inner, outer, fsDisk, uncaught, ioFailed>>

\* stream.on('end', () => resolve(data)), then the parser on the buffer.
DefaultEnd ==
    /\ session.mode = "default" /\ source = "open" /\ cursor > Len(session.body)
    /\ source' = "ended"
    /\ outer' = SettleWith(outer, defaultStreamParser(session.sub, rest.data, session.path,
                                                      session.b))
    /\ UNCHANGED <<syncVars, session, cursor, sniffer, decoder, fileParts, queue, fieldMap,
                   arrivals, subErrors, inner, rest, fsDisk, uncaught, ioFailed>>

\* stream.on('error', err => reject(err))
DefaultError ==
    /\ session.mode = "default" /\ source = "open"
    /\ source' = "errored"
    /\ outer' = SettleWith(outer, Rejected("Error", <<Line(<<>>, "stream error")>>))
    /\ UNCHANGED <<syncVars, session, cursor, sniffer, decoder, fileParts, queue, fieldMap,
                   arrivals, subErrors, inner, rest, fsDisk, uncaught, ioFailed>>

----------------------------------------------------------------------------
\* What a settlement of the promise of parseFormDataStream does to the
\* stream parser: relay a value or a ParsingError, or start the fallback
\* reader, whose listeners start the stream again (flows) or do not.
Propagate(innerNew, open) ==
    /\ inner' = innerNew
    /\ outer' = SettleWith(outer, Relay(innerNew))
    /\ IF IsFallback(innerNew) /\ ~IsFallback(inner)
       THEN \E flows \in {TRUE, ~open} :
               rest' = [st |-> IF flows THEN "reading" ELSE "paused", data |-> <<>>]
       ELSE rest' = rest

\* The decoder and handler state, before and after a write.
Ingested ==
    [decoder |-> decoder, fileParts |-> fileParts, queue |-> queue, fieldMap |-> fieldMap,
     arrivals |-> arrivals, inner |-> inner]
Written(st) ==
    /\ decoder' = st.decoder /\ fileParts' = st.fileParts /\ queue' = st.queue
    /\ fieldMap' = st.fieldMap /\ arrivals' = st.arrivals
    /\ Propagate(st.inner, TRUE)

\* A variant of the search that looks at the chunk just read only.
lastChunk(buffers, chunk) == chunk

\* Buffer.concat(buffers), after buffers.push(chunk)
concat(buffers, chunk) == buffers \o chunk

\* onReadable, for one chunk read.  Under object().stream a rejection
\* leaves the executor of parseFormDataStream as a rejection nobody handles;
\* on success the executor goes on: it attaches the handlers and calls
\* start().  A caller of parseFormData itself calls start() later.
SniffRead ==
    /\ session.mode \in {"object", "formdata"} /\ sniffer.st \in {"pending", "rejected"}
    /\ source = "open" /\ cursor <= Len(session.body)
    /\ cursor' = cursor + 1
    /\ LET searchBuffer == concat(sniffer.buffers, session.body[cursor])
           totalLength == sniffer.totalLength + Length(session.body[cursor])
           read == [sniffer EXCEPT !.buffers = @ \o session.body[cursor],
                                   !.totalLength = totalLength]
           reject(message) ==
               /\ sniffer' = [read EXCEPT !.st = "rejected",
                                          !.err = IF sniffer.st = "pending" THEN message ELSE @,
                                          !.flag = @ \/ totalLength > MAX_BUFFER_SIZE]
               /\ uncaught' = uncaught + (IF ObjectSession /\ sniffer.st = "pending" THEN 1 ELSE 0)
               /\ UNCHANGED <<decoder, fileParts, queue, fieldMap, arrivals, inner, outer, rest>>
           created == createBusBoy(slice(firstLine(searchBuffer)), searchBuffer)
       IN  IF sniffer.flag THEN reject("Boundary not found within reasonable buffer size")
           ELSE IF ~HasCRLF(searchBuffer)
           THEN /\ sniffer' = [read EXCEPT !.flag = totalLength > MAX_BUFFER_SIZE]
                /\ UNCHANGED <<decoder, fileParts, queue, fieldMap, arrivals, inner, outer,
                               rest, uncaught>>
           ELSE IF ~StartsWithDashes(searchBuffer)
           THEN reject("Invalid multipart/form-data: does not start with boundary")
           ELSE IF sniffer.st = "rejected"
           THEN /\ sniffer' = [read EXCEPT !.st = "detached"]
                /\ UNCHANGED <<decoder, fileParts, queue, fieldMap, arrivals, inner, outer,
                               rest, uncaught>>
           ELSE /\ sniffer' = [read EXCEPT !.st = "resolved",
                                           !.boundary = slice(firstLine(searchBuffer)),
                                           !.flag = totalLength > MAX_BUFFER_SIZE]
                /\ IF ObjectSession
                   THEN Written(start(attach([Ingested EXCEPT !.decoder = created])))
                   ELSE /\ decoder' = created
                        /\ UNCHANGED <<fileParts, queue, fieldMap, arrivals, inner, outer, rest>>
                /\ UNCHANGED uncaught
    /\ UNCHANGED <<syncVars, session, source, subErrors, fsDisk, ioFailed>>

\* stream.pipe(busboy): the next chunk of the source is written to the
\* decoder, once the events of the sub-streams have been delivered.
PipeChunk ==
    /\ ObjectSession /\ sniffer.st = "resolved" /\ decoder.st = "running"
    /\ source = "open" /\ cursor <= Len(session.body) /\ queue = <<>>
    /\ cursor' = cursor + 1
    /\ Written(Write(Ingested, session.body[cursor]))
    /\ UNCHANGED <<syncVars, session, source, sniffer, subErrors, fsDisk, uncaught, ioFailed>>

\* parseFormData(stream, busboyConfig, options), called by itself: with a
\* boundary in the options the decoder is created at once and nothing is
\* read; without, the sniffer starts to listen.
CallParseFormData ==
    /\ session.mode = "formdata" /\ sniffer.st = "idle"
    /\ LET boundary == parseOptions(session.known)
       IN  IF boundary # <<>>
           THEN /\ decoder' = createBusBoy(boundary, <<>>)
                /\ sniffer' = [sniffer EXCEPT !.st = "skipped"]
           ELSE /\ sniffer' = [sniffer EXCEPT !.st = "pending"]
                /\ UNCHANGED decoder
    /\ UNCHANGED <<syncVars, session, cursor, source, fileParts, queue, fieldMap, arrivals,
                   subErrors, inner, outer, rest, fsDisk, uncaught, ioFailed>>

\* start(), called by the caller of parseFormData, which listens to none of
\* the events of the decoder.
CallStart ==
    /\ session.mode = "formdata" /\ decoder.st = "created"
    /\ decoder' = start(Ingested).decoder
    /\ UNCHANGED <<syncVars, session, cursor, source, sniffer, fileParts, queue, fieldMap,
                   arrivals, subErrors, inner, outer, rest, fsDisk, uncaught, ioFailed>>

\* stream.pipe(busboy) after such a start().
PipeDirect ==
    /\ session.mode = "formdata" /\ decoder.st = "running"
    /\ source = "open" /\ cursor <= Len(session.body)
    /\ cursor' = cursor + 1
    /\ decoder' = Write(Ingested, session.body[cursor]).decoder
    /\ UNCHANGED <<syncVars, session, source, sniffer, fileParts, queue, fieldMap, arrivals,
                   subErrors, inner, outer, rest, fsDisk, uncaught, ioFailed>>

\* The 'data' listener of streamToBuffer.
RestData ==
    /\ ObjectSession /\ rest.st = "reading"
    /\ source = "open" /\ cursor <= Len(session.body)
    /\ cursor' = cursor + 1
    /\ rest' = [rest EXCEPT !.data = onData(@, session.body[cursor])]
    /\ UNCHANGED <<syncVars, session, source, sniffer, decoder, fileParts, queue, fieldMap,
                   arrivals, subErrors, inner, outer, fsDisk, uncaught, ioFailed>>

\* fileStream.on('data', ...)
SubData ==
    /\ ObjectSession /\ decoder.st = "running"
    /\ queue # <<>> /\ Head(queue).k = "data"
    /\ \E io \in IO :
         LET i == Head(queue).part
             chunk == Head(queue).chunk
             r == onFileData(fileParts[i].acc, chunk, Options, "-" \o fileParts[i].filename,
                             fsDisk, io)
         IN  /\ fileParts' = [fileParts EXCEPT ![i].acc = r.file, ![i].total = @ + chunk.n]
             /\ fsDisk' = r.disk
             /\ uncaught' = uncaught + (IF r.threw THEN 1 ELSE 0)
             /\ ioFailed' = (ioFailed \/ r.threw)
    /\ queue' = Tail(queue)
    /\ UNCHANGED <<syncVars, session, cursor, source, sniffer, decoder, fieldMap, arrivals,
                   subErrors, inner, outer, rest>>

\* fileStream.on('end', ...)
SubEnd ==
    /\ ObjectSession /\ decoder.st = "running"
    /\ queue # <<>> /\ Head(queue).k = "end"
    /\ LET i == Head(queue).part
       IN  /\ fieldMap' = Install(fieldMap, fileParts[i].name, fileParts[i].acc)
           /\ arrivals' = Append(arrivals, Entry(fileParts[i].name, fileParts[i].acc))
           /\ fileParts' = [fileParts EXCEPT ![i].ended = TRUE]
    /\ queue' = Tail(queue)
    /\ UNCHANGED <<syncVars, session, cursor, source, sniffer, decoder, subErrors, inner,
                   outer, rest, fsDisk, uncaught, ioFailed>>

\* fileStream.on('error', err => errors.push(err)): the sub-stream of a part
\* fails before its end and delivers no more; the decoder goes on.
SubError ==
    /\ ObjectSession /\ decoder.st = "running"
    /\ queue # <<>>
    /\ subErrors' = Append(subErrors, Line(<<>>, "sub-stream error"))
    /\ queue' = SelectSeq(queue, LAMBDA ev : ev.part # Head(queue).part)
    /\ fileParts' = [fileParts EXCEPT ![Head(queue).part].failed = TRUE]
    /\ UNCHANGED <<syncVars, session, cursor, source, sniffer, decoder, fieldMap,
                   arrivals, inner, outer, rest, fsDisk, uncaught, ioFailed>>

\* parser(await streamToBuffer(stream), path)
onRestEnd(shape, opts, data, path, b) ==
    PromiseOf(object(shape, opts, Buf(TextOf(data)), path, b))

\* The source ends.  The sniffer has no 'end' listener.  The pipe ends the
\* decoder, which finishes after the closing delimiter and fails without
\* it, failing the file sub-stream that is open; streamToBuffer resolves.
SourceEnd ==
    /\ ObjectSession /\ source = "open" /\ cursor > Len(session.body) /\ queue = <<>>
    /\ source' = "ended"
    /\ IF sniffer.st = "resolved" /\ decoder.st = "running"
       THEN IF decoder.closed
            THEN /\ decoder' = [decoder EXCEPT !.st = "finished"]
                 /\ Propagate(SettleWith(inner, onFinish(session.shape, Options, fieldMap,
                                                         session.path, subErrors, session.b)),
                              FALSE)
                 /\ UNCHANGED subErrors
            ELSE /\ decoder' = [decoder EXCEPT !.st = "errored"]
                 /\ subErrors' = IF fileParts # <<>> /\ ~fileParts[Len(fileParts)].ended
                                 THEN Append(subErrors, Line(<<>>, "Unexpected end of form"))
                                 ELSE subErrors
                 /\ Propagate(onError(inner, <<Line(<<>>, "Unexpected end of form")>>), FALSE)
       ELSE /\ outer' = IF rest.st = "reading"
                        THEN SettleWith(outer, onRestEnd(session.shape, Options, rest.data,
                                                         session.path, session.b))
                        ELSE outer
            /\ UNCHANGED <<decoder, subErrors, inner, rest>>
    /\ UNCHANGED <<syncVars, session, cursor, sniffer, fileParts, queue, fieldMap, arrivals,
                   fsDisk, uncaught, ioFailed>>

\* The source emits 'error' and is destroyed.  The sniffer passes it to
\* reject; after sniffing only streamToBuffer listens for it.
SourceError ==
    /\ session.mode \in {"object", "formdata"} /\ sniffer.st # "idle" /\ source = "open"
    /\ source' = "errored"
    /\ sniffer' = IF sniffer.st = "pending"
                  THEN [sniffer EXCEPT !.st = "rejected", !.err = "stream error"]
                  ELSE sniffer
    /\ outer' = IF rest.st \in {"reading", "paused"}
                THEN SettleWith(outer, Rejected("Error", <<Line(<<>>, "stream error")>>))
                ELSE outer
    /\ uncaught' = uncaught + (IF sniffer.st = "rejected" \/ rest.st \in {"reading", "paused"}
                                  \/ (sniffer.st = "pending" /\ ~ObjectSession)
                               THEN 0 ELSE 1)
    /\ UNCHANGED <<syncVars, session, cursor, decoder, fileParts, queue, fieldMap, arrivals,
                   subErrors, inner, rest, fsDisk, ioFailed>>

\* The source of a call of parseFormData itself ends: the sniffer has no
\* 'end' listener; the pipe ends a decoder that was started.
DirectEnd ==
    /\ session.mode = "formdata" /\ sniffer.st # "idle"
    /\ source = "open" /\ cursor > Len(session.body)
    /\ source' = "ended"
    /\ decoder' = IF decoder.st = "running"
                  THEN [decoder EXCEPT !.st = IF decoder.closed THEN "finished" ELSE "errored"]
                  ELSE decoder
    /\ UNCHANGED <<syncVars, session, cursor, sniffer, fileParts, queue, fieldMap, arrivals,
                   subErrors, inner, outer, rest, fsDisk, uncaught, ioFailed>>

InitStream == InitFileStream \/ InitObjectStream \/ InitFormData \/ InitDefaultStream

NextStream ==
    \/ FileStreamData \/ FileStreamEnd \/ FileStreamError
    \/ SniffRead \/ PipeChunk \/ RestData \/ SubData \/ SubEnd \/ SourceEnd \/ SourceError
    \/ CallParseFormData \/ CallStart \/ PipeDirect \/ DirectEnd
    \/ DefaultData \/ DefaultEnd \/ DefaultError \/ SubError

SpecStream == InitStream /\ [][NextStream]_vars

----------------------------------------------------------------------------
(* Properties of the stream parsers.                                       *)

\* The synchronous object transform on the complete bytes of the body.
SyncOutcome ==
    PromiseOf(object(session.shape, Options, Buf(TextOf(Flatten(session.body))),
                     session.path, session.b))
\* The sniffer found no boundary: it rejected, or the stream ended on it.
NoBoundary == sniffer.st \in {"pending", "rejected"}

\* C2: when multipart ingestion fails with anything but a ParsingError (the
\* sniffer finds no boundary, the decoder fails), object(shape).stream
\* buffers the whole stream and, once the stream has ended, has settled with
\* the outcome of the synchronous object transform on the complete bytes of
\* the stream; the JSON text of a matching object resolves to that object.
C2_FallbackGivesSyncOutcome ==
    (ObjectSession /\ source = "ended" /\ (NoBoundary \/ IsFallback(inner)))
    => outer = SyncOutcome

\* C3: when the decoder has finished and no sub-stream error was collected,
\* the promise of the ingestion holds the outcome, value or ParsingError, of
\* object(shape, options) applied to the Field Map with the path of the call.
C3_FinishGivesObjectOfFieldMap ==
    (ObjectSession /\ decoder.st = "finished" /\ subErrors = <<>>)
    => inner = PromiseOf(object(session.shape, Options, Obj(fieldMap), session.path,
                                session.b - Frames("object")))

\* The test 'FormData stream parsing with files': name, age 30 and a
\* two-element file array.
C3_Witness ==
    /\ ObjectSession /\ decoder.st = "finished" /\ subErrors = <<>>
    /\ session.shape = ShapeForm /\ Flatten(session.body) = FormTokens
    /\ inner.st = "resolved"
    /\ Lookup(inner.v, "name") = Str("John") /\ Lookup(inner.v, "age") = Num(30)
    /\ Lookup(inner.v, "file").t = "Array" /\ Len(Lookup(inner.v, "file").e) = 2

\* The values installed under a name, in installation order.
InstalledUnder(name) ==
    LET under == SelectSeq(arrivals, LAMBDA a : a.k = name)
    IN  [i \in DOMAIN under |-> under[i].v]

\* C4: after any sequence of field events and file-end events, the Field Map
\* holds, for every field name, the one value installed under it if the name
\* occurred once, and otherwise the sequence of all the values installed
\* under it, in installation order.
C4_FieldMapUpgradeRule ==
    ObjectSession =>
      /\ OwnKeys(Obj(fieldMap)) = {arrivals[i].k : i \in DOMAIN arrivals}
      /\ \A name \in OwnKeys(Obj(fieldMap)) :
            Lookup(Obj(fieldMap), name) =
               IF Len(InstalledUnder(name)) = 1 THEN InstalledUnder(name)[1]
               ELSE Arr(InstalledUnder(name))

\* The options the 'data' handler of the session reads its threshold from.
SpoolOptions == IF session.mode = "file" THEN session.fopts ELSE Options

\* C7: as long as no disk operation fails, a streamed file whose delivered
\* bytes are at most the threshold is a RAMFile, one whose delivered bytes
\* exceed it (by one byte or more) is a TempFile from the append that
\* crossed the threshold on, and its size is the number of bytes delivered.
C7_SpoolingBoundary ==
    ~ioFailed =>
      \A i \in DOMAIN fileParts :
         /\ fileParts[i].total <= Threshold(SpoolOptions) => fileParts[i].acc.t = "RAMFile"
         /\ fileParts[i].total > Threshold(SpoolOptions) => fileParts[i].acc.t = "TempFile"
         /\ fileParts[i].acc.n = fileParts[i].total

\* A file part of a multipart body that took the default threshold exactly
\* and then one byte more: upgraded, with all the bytes on the disk.
C7_Witness ==
    /\ ObjectSession /\ ~ioFailed /\ ~Options.hasMaxForRAM
    /\ \E i \in DOMAIN fileParts :
          /\ fileParts[i].total = DefaultMaxForRAM + 1
          /\ fileParts[i].acc.t = "TempFile"
          /\ fileParts[i].acc.n = DefaultMaxForRAM + 1
          /\ Bytes(fsDisk[fileParts[i].acc.s]) = DefaultMaxForRAM + 1

\* The bytes in the storage of a File.
StoredBytes(f) == IF f.t = "RAMFile" THEN Bytes(f.e) ELSE Bytes(fsDisk[f.s])

\* C8: in every reachable state the size of a File, of either variant, is
\* the number of bytes in its storage, also after an append to a TempFile
\* failed.
C8_SizeIsStoredBytes ==
    \A i \in DOMAIN fileParts : fileParts[i].acc.n = StoredBytes(fileParts[i].acc)

\* The threshold object(shape, options).stream is configured with.
ConfiguredThreshold ==
    IF session.oopts.hasMaxFileMemory THEN session.oopts.maxFileMemory
    ELSE IF session.oopts.hasMaxForRAM THEN session.oopts.maxForRAM
    ELSE DefaultMaxForRAM

\* C9: with object(shape, {maxFileMemory: N}).stream a file part is a
\* TempFile exactly when the bytes delivered to it exceed N; the default
\* threshold applies only when none is configured.
C9_MaxFileMemoryIsTheThreshold ==
    (ObjectSession /\ ~ioFailed) =>
      \A i \in DOMAIN fileParts :
         fileParts[i].acc.t = "TempFile" <=> fileParts[i].total > ConfiguredThreshold

\* C13: the ceiling max of file is checked once the stream has ended.  With
\* a ceiling of at least one byte and no failed disk operation, the promise
\* of file({max}).stream is then rejected with a ParsingError if the bytes
\* delivered exceed max, and resolved with a File of exactly that size
\* otherwise.
C13_MaxCheckedAtEndOfStream ==
    (session.mode = "file" /\ source = "ended" /\ ~ioFailed
       /\ session.fopts.hasMax /\ session.fopts.max > 0)
    => IF fileParts[1].total > session.fopts.max
       THEN outer.st = "rejected" /\ outer.kind = "ParsingError"
       ELSE outer.st = "resolved" /\ IsFile(outer.v) /\ outer.v.n = fileParts[1].total

\* All the bytes of the source, and the length of its bytes up to the end
\* of the first line break.
All == Flatten(session.body)
RECURSIVE LineEnd(_)
LineEnd(toks) ==
    IF toks = <<>> THEN 0
    ELSE IF HasCRLF(<<Head(toks)>>) THEN Head(toks).len
    ELSE Head(toks).len + LineEnd(Tail(toks))
FirstLineWithinCap == HasCRLF(All) /\ LineEnd(All) <= MAX_BUFFER_SIZE
Sniffing == session.mode \in {"object", "formdata"} /\ sniffer.st \notin {"idle", "skipped"}
InvalidMultipart == "Invalid multipart/form-data: does not start with boundary"
BoundaryNotFound == "Boundary not found within reasonable buffer size"

\* C14: sniffing decides on the first line of the source that ends in a
\* CRLF, however the source is cut into chunks.  For a source whose first
\* line ends within MAX_BUFFER_SIZE bytes: while the chunks read hold no
\* CRLF the sniffer is pending (or the source failed); with the chunk that
\* completes the line it succeeds if the line starts with '--', with the
\* rest of the line as the boundary the decoder is configured with, and is
\* rejected with 'does not start with boundary' otherwise.
C14_SniffDecidesOnFirstLine ==
    (Sniffing /\ FirstLineWithinCap)
    => IF ~HasCRLF(sniffer.buffers)
       THEN sniffer.st = "pending" \/ (source = "errored" /\ sniffer.err = "stream error")
       ELSE IF StartsWithDashes(All)
       THEN /\ sniffer.st = "resolved"
            /\ sniffer.boundary = SubSeq(firstLine(All), 3, Len(firstLine(All)))
            /\ decoder.boundary = sniffer.boundary
       ELSE sniffer.st = "rejected" /\ sniffer.err = InvalidMultipart

\* The line --XYZ CRLF arrives in two chunks and yields the boundary XYZ.
C14_Witness ==
    /\ Sniffing /\ session.body[1] = <<DelimHead>> /\ session.body[2] = <<DelimTail>>
    /\ sniffer.st = "resolved" /\ sniffer.boundary = <<"X", "Y", "Z">>
    /\ decoder.boundary = <<"X", "Y", "Z">>

\* C15: the sniffer buffers at most MAX_BUFFER_SIZE bytes in search of the
\* first line.  For a source whose first MAX_BUFFER_SIZE bytes hold no
\* complete line, once the sniffer has read more than that it never
\* succeeds, it fails with no other error than 'Boundary not found within
\* reasonable buffer size' (unless the source itself fails), and it has
\* failed at the latest when the source has ended.
C15_SniffCap ==
    (Sniffing /\ ~FirstLineWithinCap /\ sniffer.totalLength > MAX_BUFFER_SIZE
       /\ source # "errored")
    => /\ sniffer.st # "resolved"
       /\ sniffer.st = "rejected" => sniffer.err = BoundaryNotFound
       /\ source = "ended" => sniffer.st = "rejected"

\* The bytes the source has delivered so far.
Delivered == Flatten(SubSeq(session.body, 1, cursor - 1))

\* C16: after successful sniffing the decoder is written exactly the bytes
\* of the source, in order: what the sniffer buffered first, then the
\* chunks that follow.  While the decoder runs, and when it has finished,
\* all that was written to it is all the source has delivered.
C16_DecoderGetsTheSourceBytes ==
    (Sniffing /\ sniffer.st = "resolved" /\ decoder.st \in {"running", "finished"})
    => decoder.fed = Delivered

\* A boundary line sniffed from two chunks, two more chunks piped, and the
\* decoder has finished on the whole body.
C16_Witness ==
    /\ Sniffing /\ sniffer.st = "resolved" /\ decoder.st = "finished"
    /\ Len(session.body) = 4 /\ sniffer.buffers = <<DelimHead, DelimTail>>
    /\ decoder.fed = <<DelimHead, DelimTail, Field("test", "x"), Close>>

\* The content-type header of the options, and the boundaries the options
\* name: the boundary option, and the boundary=... of the contentType
\* option and of the header.
HeaderOf(options) == IF options.lower.given THEN options.lower ELSE options.upper
KnownBoundaries ==
    {b \in {session.known.boundary, session.known.contentType.boundary,
            HeaderOf(session.known).boundary} : b # <<>>}

\* C17: when the options of parseFormData name a boundary, sniffing is
\* skipped.  Nothing is read from the source before start() is called, the
\* decoder is configured with a boundary of the options, the boundary
\* option if there is one, start() writes no buffered bytes, and the
\* decoder is written the chunks of the source and nothing else.
C17_KnownBoundarySkipsSniffing ==
    (session.mode = "formdata" /\ sniffer.st # "idle" /\ KnownBoundaries # {})
    => /\ sniffer.st = "skipped" /\ sniffer.buffers = <<>>
       /\ decoder.st # "idle" /\ decoder.scratch = <<>>
       /\ decoder.boundary \in KnownBoundaries
       /\ session.known.boundary # <<>> => decoder.boundary = session.known.boundary
       /\ decoder.st = "created" => cursor = 1 /\ decoder.fed = <<>>
       /\ decoder.st \in {"running", "finished"} => decoder.fed = Delivered

\* {boundary: B, contentType: ...boundary=C, headers: ...boundary=H}: the
\* decoder has finished on the body with the boundary B, nothing sniffed.
C17_Witness ==
    /\ session.mode = "formdata" /\ sniffer.st = "skipped"
    /\ session.known.boundary = <<"B">> /\ session.known.contentType.boundary = <<"C">>
    /\ decoder.st = "finished" /\ decoder.boundary = <<"B">>
    /\ decoder.fed = All /\ Len(session.body) > 1

\* C18: when the stream given to object(shape).stream carries headers whose
\* content-type names the boundary of its multipart body, the decoder is
\* configured with that boundary and the sniffer reads nothing from the
\* stream.
C18_StreamHeadersGiveTheBoundary ==
    (ObjectSession /\ session.headers # <<>> /\ Delimiter = session.headers)
    => /\ sniffer.buffers = <<>>
       /\ decoder.st # "idle" => decoder.boundary = session.headers

\* The concatenation of all chunks of the source, in arrival order.
Buffered == Buf(TextOf(Flatten(session.body)))
\* The value transform of the parser on that buffer, with the same path.
ValueTransform == Parse(session.sub, Buffered, session.path, session.b)

\* C21: parser.stream(s, path) of a parser created without a stream parser
\* of its own is 'buffer fully, then apply': its promise stays pending while
\* s delivers, and once s has signalled end-of-data it is settled with the
\* outcome, value or error, of the value transform applied with the same
\* path to the concatenation of all chunks in arrival order.
C21_DefaultStreamBuffersThenApplies ==
    session.mode = "default" =>
       /\ source = "open" => outer = Pending
       /\ source = "ended" => outer = PromiseOf(ValueTransform)

\* int().stream on '1' then '5' resolves with 15 after the end.
C21_Witness ==
    /\ session.mode = "default" /\ session.sub = "int"
    /\ session.body = <<<<Json("1")>>, <<Json("5")>>>>
    /\ source = "ended" /\ rest.data = <<Json("1"), Json("5")>>
    /\ outer = Resolved(Num(15))

\* C22: in every phase of a stream parse in flight (default buffering, file
\* accumulation, boundary sniffing, multipart accumulation after the decoder
\* was started) an error event on the source aborts the parse: once the
\* event and the events still queued are handled, the promise the stream
\* parser returned is rejected, not left pending.
C22_SourceErrorRejects ==
    (session.mode \in {"default", "file", "object"} /\ source = "errored" /\ queue = <<>>)
       => outer.st = "rejected"

Handlers == {"field", "file", "error", "finish"}
\* The decoder is configured and its start function has not been called.
Configured == decoder.st = "created"

\* C27: configuring the decoder writes no byte to it and does not resume
\* the source; parseFormDataStream attaches the field, file, error and
\* finish listeners before it calls the start function; the replay of the
\* scratch buffer and the resumption of the stream happen in the start
\* function only, so the decoder emits no event that has no listener.
C27_ConfigureThenStart ==
    [][ /\ (decoder.st = "idle" /\ decoder'.st # "idle" /\ session.mode = "formdata")
              => Configured'
        /\ Configured' => (decoder'.fed = <<>> /\ queue' = <<>> /\ fieldMap' = <<>>)
        /\ (Configured /\ Configured') => cursor' = cursor
        /\ (ObjectSession /\ decoder'.st # "idle")
              => (decoder'.listeners = Handlers /\ ~decoder'.unheard) ]_vars

\* parseFormData has sniffed '--B' from the first chunk and returned: the
\* decoder holds the chunk as its scratch buffer and has been given nothing.
C27_Witness ==
    /\ session.mode = "formdata" /\ Configured /\ sniffer.st = "resolved"
    /\ decoder.scratch # <<>> /\ decoder.fed = <<>> /\ cursor = 2

\* object().stream has started the decoder with all four listeners in
\* place: the field of the scratch buffer is in the Field Map.
C27_WitnessStarted ==
    /\ ObjectSession /\ decoder.st = "running" /\ decoder.listeners = Handlers
    /\ decoder.fed = decoder.scratch /\ arrivals # <<>> /\ ~decoder.unheard

\* The parts named name in the bytes the decoder was given, in the order of
\* the byte stream: a text field with its value, a file part as "file".
PartsNamed(name) ==
    LET parts == SelectSeq(decoder.fed, LAMBDA tok : tok.k \in {"field", "file"} /\ tok.name = name)
    IN  [i \in DOMAIN parts |-> IF parts[i].k = "file" THEN "file" ELSE parts[i].val]
\* The values the Field Map holds under name, in the order of its sequence.
FieldMapNamed(name) ==
    LET v == Lookup(Obj(fieldMap), name)
        values == IF v.t = "Array" THEN v.e ELSE <<v>>
    IN  [i \in DOMAIN values |-> IF IsFile(values[i]) THEN "file" ELSE values[i].s]

\* C28: in one ingestion session the values that share a field name stand in
\* the Field Map in the order in which their parts arrived in the byte
\* stream, also when a file part is followed by a text field or another
\* file of the same name.
C28_FieldMapInArrivalOrder ==
    (ObjectSession /\ decoder.st = "finished" /\ subErrors = <<>>)
       => \A name \in OwnKeys(Obj(fieldMap)) \ ObjectPrototypeNames :
             FieldMapNamed(name) = PartsNamed(name)

\* C29: the errors of file sub-streams are collected while ingestion goes
\* on; when the decoder completes with collected errors, the stream parse
\* fails with exactly those errors: no shape validation of the Field Map
\* and no second parse of the stream takes the place of that failure.
C29_CollectedErrorsFailTheParse ==
    (ObjectSession /\ decoder.st = "finished" /\ subErrors # <<>>)
       => /\ outer.st = "rejected" /\ outer.msg = subErrors
          /\ rest.st = "idle"

\* The pipeline was rejected with an error of the decoder.
RejectedByDecoder ==
    /\ inner.st = "rejected" /\ inner.kind = "Error"
    /\ inner.msg \in {<<Line(<<>>, "Malformed part header")>>,
                      <<Line(<<>>, "Unexpected end of form")>>}

\* C30: an error of the decoder ends the ingestion pipeline: in the step in
\* which the decoder fails the promise of the pipeline is rejected with that
\* error, the decoder never completes afterwards, and no later event of a
\* field, a file or the completion changes the promise.
C30_DecoderErrorIsTerminal ==
    [][ /\ (ObjectSession /\ decoder'.st = "errored") => RejectedByDecoder'
        /\ (ObjectSession /\ decoder.st = "errored")
              => (decoder'.st = "errored" /\ inner' = inner) ]_vars

\* A malformed part after a field: the pipeline is rejected with 'Malformed
\* part header', and stays so after the end of the source.
C30_Witness ==
    /\ ObjectSession /\ decoder.st = "errored" /\ source = "ended"
    /\ \E i \in DOMAIN decoder.fed : decoder.fed[i] = Junk
    /\ arrivals # <<>>
    /\ inner = Rejected("Error", <<Line(<<>>, "Malformed part header")>>)

\* C31: a failure of the boundary sniffer ends the multipart ingestion:
\* whenever the sniffer has failed (format error, buffer-size error or
\* source error) the promise of the ingestion pipeline is rejected with that
\* failure, it does not stay pending.
C31_SniffFailureRejectsThePipeline ==
    (ObjectSession /\ sniffer.st = "rejected")
       => (inner.st = "rejected" /\ inner.msg = <<Line(<<>>, sniffer.err)>>)

\* C38: boundary sniffing settles on every finite stream: when the source
\* has ended before a first line that ends in CRLF was seen, the promise of
\* the sniffer is rejected, it is not left pending.
C38_SniffSettlesAtEndOfStream ==
    (session.mode \in {"object", "formdata"} /\ source = "ended")
       => sniffer.st # "pending"

\* C32: when writing to the disk fails during accumulation (the flush at
\* the upgrade or a later append), the enclosing stream parse, of
\* file().stream or of the multipart ingestion, is rejected with that
\* error: once the source has ended and every event is handled its promise
\* is rejected, not resolved and not pending.
C32_DiskFailureRejects ==
    (session.mode \in {"file", "object"} /\ ioFailed /\ source = "ended" /\ queue = <<>>)
       => outer.st = "rejected"

\* The step leaves the variant and the disk path of every File that is on
\* the disk alone, and a new accumulation starts in memory.
UpgradedOnce ==
    /\ \A i \in DOMAIN fileParts :
          /\ i \in DOMAIN fileParts'
          /\ fileParts[i].acc.t = "TempFile"
                => /\ fileParts'[i].acc.t = "TempFile"
                   /\ fileParts'[i].acc.s = fileParts[i].acc.s
                   /\ fileParts'[i].total > fileParts[i].total
                         => /\ fileParts'[i].acc.n > fileParts[i].acc.n
                            /\ ~ioFailed' => Len(fsDisk'[fileParts[i].acc.s])
                                               = Len(fsDisk[fileParts[i].acc.s]) + 1
    /\ \A i \in DOMAIN fileParts' \ DOMAIN fileParts : fileParts'[i].acc = RAMFileV(0, <<>>)
\* No two Files share a disk path, and the variant of a File is decided by
\* the bytes delivered to it.
PerFilePolicy ==
    /\ \A i, j \in DOMAIN fileParts :
          (i # j /\ fileParts[i].acc.t = "TempFile" /\ fileParts[j].acc.t = "TempFile")
             => fileParts[i].acc.s # fileParts[j].acc.s
    /\ ~ioFailed => \A i \in DOMAIN fileParts :
          fileParts[i].acc.t = "TempFile" <=> fileParts[i].total > Threshold(SpoolOptions)

\* C33: every accumulation starts in memory and is upgraded at most once,
\* from memory to disk: a File on the disk never returns to memory, keeps
\* its disk path, and takes every later append in that file; the policy is
\* applied per file, the variant of one part does not depend on the bytes
\* of another part.
C33_UpgradedAtMostOnce ==
    [][UpgradedOnce /\ PerFilePolicy']_vars

\* Two file parts of one body with {maxForRAM: 2}: the first, of three
\* bytes, is on the disk, the second, of one byte, in memory.
C33_Witness ==
    /\ ObjectSession /\ ~ioFailed /\ Len(fileParts) = 2
    /\ fileParts[1].ended /\ fileParts[2].ended
    /\ fileParts[1].acc.t = "TempFile" /\ fileParts[1].total = 3
    /\ fileParts[2].acc.t = "RAMFile" /\ fileParts[2].total = 1

\* A file stream of three chunks with {maxForRAM: 2}: upgraded at the
\* second chunk, the third appended to the same disk file.
C33_WitnessAppend ==
    /\ session.mode = "file" /\ ~ioFailed /\ cursor = 4
    /\ fileParts[1].acc.t = "TempFile" /\ fileParts[1].total = 4
    /\ Len(fsDisk[fileParts[1].acc.s]) = 3

\* file.readSync(): the data of a RAMFile, the content of the disk file of
\* a TempFile.
readSync(f) == IF f.t = "RAMFile" THEN f.e ELSE fsDisk[f.s]
\* The chunks delivered to file part i so far, in arrival order.
DeliveredTo(i) ==
    IF session.mode = "file"
    THEN [j \in 1..(cursor - 1) |-> ChunkOf(session.body[j][1])]
    ELSE LET idx == SelectSeq([j \in DOMAIN decoder.fed |-> j],
                      LAMBDA j : /\ decoder.fed[j].k = "data"
                                 /\ Len(SelectSeq(SubSeq(decoder.fed, 1, j),
                                                  LAMBDA tok : tok.k = "file")) = i)
             pending == Len(SelectSeq(queue, LAMBDA ev : ev.k = "data" /\ ev.part = i))
         IN  [j \in 1..(Len(idx) - pending) |-> ChunkOf(decoder.fed[idx[j]])]

\* C34: spooling keeps the content: as long as no disk operation fails, for
\* every sequence of chunks and every threshold what a File reads back,
\* from memory or from the disk, is the concatenation of the chunks
\* delivered to it in arrival order; the bytes held in memory are on the
\* disk before a later chunk is appended there.
C34_SpoolingKeepsContent ==
    ~ioFailed =>
       \A i \in DOMAIN fileParts :
          ~fileParts[i].failed => readSync(fileParts[i].acc) = DeliveredTo(i)

\* A completed file stream of three chunks, upgraded at the second: the
\* disk file holds c1, c2, c3.
C34_Witness ==
    /\ session.mode = "file" /\ ~ioFailed /\ source = "ended" /\ fileParts[1].ended
    /\ fileParts[1].acc.t = "TempFile" /\ Len(session.body) = 3
    /\ session.body[1][1].len = 1 /\ session.body[2][1].len = 2
    /\ readSync(fileParts[1].acc) = <<Chunk("c1", 1), Chunk("c2", 2), Chunk("c3", session.body[3][1].len)>>

\* The File of part i is in the Field Map, under the name of the part.
InFieldMap(i) ==
    LET v == Lookup(Obj(fieldMap), fileParts[i].name)
    IN  /\ fileParts[i].name \in OwnKeys(Obj(fieldMap))
        /\ \/ v = fileParts[i].acc
           \/ v.t = "Array" /\ \E j \in DOMAIN v.e : v.e[j] = fileParts[i].acc

====
